---- MODULE Spec2Model ----
(***************************************************************************)
(* A model of the travel assistant's retrieval pipeline                    *)
(* (src/rag_pipeline.py): the chunker, the prompt assembler, the           *)
(* Chroma-backed index store and the build/load/answer entry points.       *)
(*                                                                         *)
(* Strings are modelled as sequences of pieces (TLC strings): the string   *)
(* is the concatenation of its pieces.  A word is one piece, the blank     *)
(* between two words is the piece " ".  len() is the sum of the pieces'    *)
(* lengths, str.split() keeps the pieces that are not blanks, and          *)
(* " ".join() puts one blank piece between two words.                      *)
(***************************************************************************)
EXTENDS Integers, Sequences, FiniteSets, TLC

VARIABLES
    \* chunk_text: the argument, the locals of its loop, its position
    text, words, start, chunks, chunkPc,
    \* assemble_prompt: whether a call has returned, its arguments, its result
    promptPc, promptArgs, promptRet,
    \* the index store and its callers: which client _create_client builds
    \* in this process, the documents directory, whether index_dir exists,
    \* the collection the clients of this process see, the instance that
    \* _EMBED_MODEL holds (NoModel for None), the next fresh id, and the last
    \* call with what it did
    clientMode, docs, dirExists, store, embedModel, nextId, last,
    \* answer_with_rag: whether a call has returned, its arguments, its result
    ragPc, ragArgs, ragRet,
    \* save_index step by step: its position, its arguments and locals, and
    \* what a reader of the collection saw last
    savePc, saveCtx, observed,
    \* the chat: st.session_state, the calendar day, the rows of the bookings
    \* table, how many entries the chat memory was given so far, and the last
    \* call with what it did
    session_state, today, bookings, appended, step

chunkVars == <<text, words, start, chunks, chunkPc>>
promptVars == <<promptPc, promptArgs, promptRet>>
storeVars == <<clientMode, docs, dirExists, store, embedModel, nextId, last>>
ragVars == <<ragPc, ragArgs, ragRet>>
saveVars == <<savePc, saveCtx, observed>>
chatVars == <<session_state, today, bookings, appended, step>>
vars == <<chunkVars, promptVars, storeVars, ragVars, saveVars, chatVars>>

(***************************************************************************)
(* Bounds of the model and constants of the program                        *)
(***************************************************************************)
\* the longest text given to chunk_text, in words
MaxWords == 1000
\* the longest hit list and the largest max_chars given to assemble_prompt
MaxHits == 3
MaxChars == 100
\* no index is built once this many ids have been drawn
MaxIds == 3
CHUNK_SIZE == 300
CHUNK_OVERLAP == 60

(***************************************************************************)
(* Strings as sequences of pieces                                          *)
(***************************************************************************)
SP == " "

Min(a, b) == IF a < b THEN a ELSE b

\* str.split(): the words of a text, blanks dropped
Split(t) == SelectSeq(t, LAMBDA p : p # SP)

\* sep.join(ws) for a list of words ws
Join(sep, ws) ==
    IF ws = <<>> THEN <<>>
    ELSE [i \in 1..(2 * Len(ws) - 1) |->
             IF i % 2 = 1 THEN ws[(i + 1) \div 2] ELSE sep]

\* words[a:b], Python's slice with 0 <= a <= b <= len(words)
Slice(ws, a, b) == SubSeq(ws, a + 1, b)

\* a text of n distinct words, single blanks between them
TextOfWords(n) == Join(SP, [i \in 1..n |-> ToString(i)])

(***************************************************************************)
(* chunk_text (src/rag_pipeline.py:70-82), one action per loop iteration   *)
(***************************************************************************)
\* a window one word too long
WindowEnd_OneMore(s, ws) == Min(s + CHUNK_SIZE + 1, Len(ws))

\* end = min(start + CHUNK_SIZE, len(words))
WindowEnd(s, ws) == Min(s + CHUNK_SIZE, Len(ws))

\* the next window starts where this one ended: no overlap
NextStart_NoOverlap(e) == e

\* the overlap is one word short
NextStart_ShortOverlap(e) == e - CHUNK_OVERLAP + 1

\* the next window starts where this one started: no progress
NextStart_Stuck(e) == e - CHUNK_SIZE

\* start = end - CHUNK_OVERLAP
NextStart(e) == e - CHUNK_OVERLAP

ChunkInputs ==
    {TextOfWords(n) : n \in 0..MaxWords} \cup {<<SP>>, <<SP, "1", SP, SP, "2">>}

ChunkStart ==
    /\ text \in ChunkInputs
    /\ words = <<>>
    /\ start = 0
    /\ chunks = <<>>
    /\ chunkPc = "entry"

\* lines 71-75: the empty string returns [] at once, anything else is split
ChunkEntry ==
    /\ chunkPc = "entry"
    /\ \/ /\ text = <<>>
          /\ chunkPc' = "done"
          /\ UNCHANGED <<words, start, chunks>>
       \/ /\ text # <<>>
          /\ words' = Split(text)
          /\ start' = 0
          /\ chunks' = <<>>
          /\ chunkPc' = "loop"
    /\ UNCHANGED <<text, promptVars, saveVars, chatVars, storeVars, ragVars>>

\* lines 76-81: one evaluation of the while condition and of the loop body
ChunkLoop ==
    /\ chunkPc = "loop"
    /\ \/ /\ ~(start < Len(words))
          /\ chunkPc' = "done"
          /\ UNCHANGED <<start, chunks>>
       \/ /\ start < Len(words)
          /\ LET end == WindowEnd(start, words)
             IN /\ chunks' = Append(chunks, Join(SP, Slice(words, start, end)))
                /\ \/ /\ end = Len(words)
                      /\ chunkPc' = "done"
                      /\ UNCHANGED start
                   \/ /\ end # Len(words)
                      /\ start' = NextStart(end)
                      /\ UNCHANGED chunkPc
    /\ UNCHANGED <<text, words, promptVars, saveVars, chatVars, storeVars, ragVars>>

ChunkIdle ==
    /\ text = <<>>
    /\ words = <<>>
    /\ start = 0
    /\ chunks = <<>>
    /\ chunkPc = "idle"

(***************************************************************************)
(* Python values: None, str() and truth                                    *)
(***************************************************************************)
\* an optional value: None, or a value (a TLC string, or an integer)
None == [isNone |-> TRUE, val |-> ""]
NoneInt == [isNone |-> TRUE, val |-> 0]
Some(v) == [isNone |-> FALSE, val |-> v]

\* str(x) as used by an f-string, for an optional string and an optional int
StrOf(o) == IF o.isNone THEN "None" ELSE o.val
StrOfInt(o) == IF o.isNone THEN "None" ELSE ToString(o.val)

\* bool(x) of an optional string
Truthy(o) == ~o.isNone /\ o.val # ""

\* len(s) of a string given by its pieces
RECURSIVE CharLen(_)
CharLen(t) == IF t = <<>> THEN 0 ELSE Len(Head(t)) + CharLen(Tail(t))

\* sep.join(ts) for a list of strings ts, each given by its pieces
RECURSIVE JoinTexts(_, _)
JoinTexts(sep, ts) ==
    IF ts = <<>> THEN <<>>
    ELSE IF Len(ts) = 1 THEN ts[1]
    ELSE ts[1] \o <<sep>> \o JoinTexts(sep, Tail(ts))

(***************************************************************************)
(* assemble_prompt (src/rag_pipeline.py:356-370)                           *)
(***************************************************************************)
DEFAULT_MAX_CHARS == 2000

\* line 360: the formatted segment of one hit
Segment(r) ==
    <<"Source: ", StrOf(r.source), " (page ", StrOfInt(r.page), ")\n">>
        \o r.chunk \o <<"\n---\n">>

\* the budget test that compares the running total alone
Overflows_IgnoresSegment(total, seg, max_chars) == total > max_chars

\* line 361: total + len(seg) > max_chars
Overflows(total, seg, max_chars) == total + CharLen(seg) > max_chars

\* lines 357-364: the loop over the hits from hit i on; the value of parts
\* when the loop ends
RECURSIVE PartsFrom(_, _, _, _, _)
PartsFrom(retrieved, i, parts, total, max_chars) ==
    IF i > Len(retrieved) THEN parts
    ELSE LET seg == Segment(retrieved[i])
         IN IF Overflows(total, seg, max_chars) THEN parts
            ELSE PartsFrom(retrieved, i + 1, Append(parts, seg),
                           total + CharLen(seg), max_chars)

PromptParts(retrieved, max_chars) == PartsFrom(retrieved, 1, <<>>, 0, max_chars)

\* line 365: ctx = "\n".join(parts)
Context(parts) == JoinTexts("\n", parts)

\* lines 366-370
PromptText(query, ctx) ==
    <<"You are a travel assistant. Use only the context below to answer the question.\n\n",
      "Context:\n">> \o ctx \o <<"\nQuestion:\n">> \o query
        \o <<"\n", "Answer concisely in 2-4 sentences and mention file names when relevant.">>

assemble_prompt(query, retrieved, max_chars) ==
    LET parts == PromptParts(retrieved, max_chars)
    IN [parts |-> parts,
        ctx |-> Context(parts),
        prompt |-> PromptText(query, Context(parts))]

\* hits as retrieve builds them (lines 336-344)
Hit(score, id, chunk, source, page) ==
    [score |-> score, chunk_id |-> id, chunk |-> chunk, source |-> source, page |-> page]

PromptHitPool ==
    { Hit(0, Some("id1"), <<"visa">>, Some("a.pdf"), Some(1)),
      Hit(1, Some("id2"), <<"visa", SP, "rules">>, Some("b.pdf"), Some(2)),
      Hit(0, None, <<>>, None, NoneInt),
      Hit(2, Some("id4"), <<"fees">>, Some("a.pdf"), Some(12)) }

RECURSIVE SeqsUpTo(_, _)
SeqsUpTo(S, n) ==
    IF n = 0 THEN {<<>>}
    ELSE LET shorter == SeqsUpTo(S, n - 1)
         IN shorter \cup {Append(q, x) : q \in shorter, x \in S}

PromptQueries == {<<"visa", SP, "fees?">>}

PromptIdle ==
    /\ promptPc = "idle"
    /\ promptArgs = [query |-> <<>>, retrieved |-> <<>>, max_chars |-> 0]
    /\ promptRet = [parts |-> <<>>, ctx |-> <<>>, prompt |-> <<>>]

\* a call of assemble_prompt with arguments drawn from the bounded sets
PromptStart ==
    /\ promptPc = "called"
    /\ promptArgs \in [query : PromptQueries,
                       retrieved : SeqsUpTo(PromptHitPool, MaxHits),
                       max_chars : 0..MaxChars]
    /\ promptRet = [parts |-> <<>>, ctx |-> <<>>, prompt |-> <<>>]

AssemblePrompt ==
    /\ promptPc = "called"
    /\ promptPc' = "returned"
    /\ promptRet' = assemble_prompt(promptArgs.query, promptArgs.retrieved,
                                    promptArgs.max_chars)
    /\ UNCHANGED <<promptArgs, chunkVars, storeVars, ragVars, saveVars, chatVars>>

(***************************************************************************)
(* chunk_text as a function (lines 70-82), for build_index_from_docs       *)
(***************************************************************************)
RECURSIVE ChunksFrom(_, _, _)
ChunksFrom(ws, s, acc) ==
    IF ~(s < Len(ws)) THEN acc
    ELSE LET end == WindowEnd(s, ws)
             more == Append(acc, Join(SP, Slice(ws, s, end)))
         IN IF end = Len(ws) THEN more ELSE ChunksFrom(ws, NextStart(end), more)

chunk_text(t) == IF t = <<>> THEN <<>> ELSE ChunksFrom(Split(t), 0, <<>>)

(***************************************************************************)
(* The documents directory and extract_text_from_pdf (lines 55-66)         *)
(*                                                                         *)
(* A file is its name (stem and extension), whether pdfplumber can open    *)
(* it, and its pages; a page is the text page.extract_text() returns       *)
(* (None, or a string), or raises.                                         *)
(***************************************************************************)
Page(raw) == [raises |-> FALSE, isNone |-> FALSE, raw |-> raw]
PageNone == [raises |-> FALSE, isNone |-> TRUE, raw |-> <<>>]
PageRaises == [raises |-> TRUE, isNone |-> FALSE, raw |-> <<>>]

File(stem, ext, opens, pages) ==
    [stem |-> stem, ext |-> ext, opens |-> opens, pages |-> pages]

FileName(f) == f.stem \o "." \o f.ext

\* the extension in lower case
LowerExt(ext) == IF ext = "PDF" THEN "pdf" ELSE ext

\* f.lower().endswith(".pdf")
IsPdf(f) == LowerExt(f.ext) = "pdf"

\* lines 60-61: (page.extract_text() or "").strip(), then " ".join(text.split())
PageText(pg) == IF pg.isNone THEN <<>> ELSE Join(SP, Split(pg.raw))

\* lines 59-65: the pages gathered when the loop ends, by exhaustion or by
\* the exception of page i, which the handler of line 64 catches
RECURSIVE ExtractFrom(_, _, _)
ExtractFrom(pgs, i, acc) ==
    IF i > Len(pgs) THEN acc
    ELSE IF pgs[i].raises THEN acc
    ELSE LET t == PageText(pgs[i])
         IN ExtractFrom(pgs, i + 1,
                        IF t # <<>> THEN Append(acc, [page_no |-> i, content |-> t])
                        ELSE acc)

extract_text_from_pdf(f) == IF ~f.opens THEN <<>> ELSE ExtractFrom(f.pages, 1, <<>>)

(***************************************************************************)
(* _get_model (lines 44-51): _EMBED_MODEL is None or the instance it was   *)
(* given, the instances numbered in the order of their construction.       *)
(* ctor says whether SentenceTransformer(...) raises when it is called.    *)
(***************************************************************************)
NoModel == 0

\* a _get_model that builds an instance at every call
get_model_EveryCall(model, ctor) ==
    IF ctor = "raises" THEN [raised |-> TRUE, model |-> model, constructed |-> FALSE]
    ELSE [raised |-> FALSE, model |-> model + 1, constructed |-> TRUE]

get_model(model, ctor) ==
    IF model # NoModel THEN [raised |-> FALSE, model |-> model, constructed |-> FALSE]
    ELSE IF ctor = "raises" THEN [raised |-> TRUE, model |-> NoModel, constructed |-> FALSE]
    ELSE [raised |-> FALSE, model |-> model + 1, constructed |-> TRUE]

(***************************************************************************)
(* build_index_from_docs (lines 122-144)                                   *)
(***************************************************************************)
\* a scan that takes every file of the directory
PdfFiles_AnyFile(listing) == listing

\* lines 124-126
PdfFiles(listing) == SelectSeq(listing, IsPdf)

\* line 138
Metadata(file_name, page_no, ch) ==
    [source |-> Some(file_name), page |-> Some(page_no), text |-> ch]

\* lines 134-139 for one file: the (text, metadata) pairs of its chunks
RECURSIVE PageChunks(_, _, _, _)
PageChunks(file_name, pages, i, acc) ==
    IF i > Len(pages) THEN acc
    ELSE LET cs == chunk_text(pages[i].content)
         IN PageChunks(file_name, pages, i + 1,
                       acc \o [k \in 1..Len(cs) |->
                                 [document |-> cs[k],
                                  metadata |-> Metadata(file_name, pages[i].page_no, cs[k])]])

\* a loop over the files that ends at the first file that cannot be opened
RECURSIVE FileChunks_EndsAtFailure(_, _, _)
FileChunks_EndsAtFailure(files, i, acc) ==
    IF i > Len(files) \/ ~files[i].opens THEN acc
    ELSE FileChunks_EndsAtFailure(files, i + 1,
                                  acc \o PageChunks(FileName(files[i]),
                                                    extract_text_from_pdf(files[i]), 1, <<>>))

\* lines 131-139 over the files
RECURSIVE FileChunks(_, _, _)
FileChunks(files, i, acc) ==
    IF i > Len(files) THEN acc
    ELSE FileChunks(files, i + 1,
                    acc \o PageChunks(FileName(files[i]),
                                      extract_text_from_pdf(files[i]), 1, <<>>))

\* lines 130-144: the artifact, its ids drawn fresh (uuid4) from first_id on;
\* the vectors are left out, one stands behind each text
IndexObj(listing, first_id) ==
    LET cs == FileChunks(PdfFiles(listing), 1, <<>>)
    IN [ids |-> [k \in 1..Len(cs) |-> ToString(first_id + k - 1)],
        documents |-> [k \in 1..Len(cs) |-> cs[k].document],
        metadatas |-> [k \in 1..Len(cs) |-> cs[k].metadata]]

(***************************************************************************)
(* The vector engine as the pipeline sees it                               *)
(*                                                                         *)
(* clientMode is what _create_client (lines 90-118) yields in this         *)
(* process: a PersistentClient on index_dir, the fallback Client(), whose  *)
(* in-memory store is either shared by the clients of the process or       *)
(* fresh in every client (it is not given index_dir), or no client.        *)
(* An Env is how the engine answers the calls of one pipeline call: each   *)
(* field names the branch of one try/except cascade that is taken.         *)
(***************************************************************************)
ClientModes == {"persistent", "memShared", "memFresh", "none"}

Envs == [getColl : {"ok", "raises"},
         existing : {"include", "plain", "fail"},
         delete : {"positional", "keyword", "fail"},
         add : {"ok", "raises"},
         embedCtor : {"ok", "raises"}]

\* the engine answering every call at the first attempt
Healthy == [getColl |-> "ok", existing |-> "include", delete |-> "positional",
            add |-> "ok", embedCtor |-> "ok"]

\* the Envs that differ for load_index, which only looks up and reads
LoadEnvs == {e \in Envs : e.delete = "positional" /\ e.add = "ok" /\ e.embedCtor = "ok"}

INDEX_DIR_DEFAULT == "./db/chroma_store"
COLLECTION_NAME == "travel_docs"

EmptyStore == [exists |-> FALSE, items |-> <<>>]
EmptyDict == <<>>

\* d.get(k, default)
DictGet(d, k, default) == IF k \in DOMAIN d THEN d[k] ELSE default

\* the collection a client built in this mode sees, and what stays of the
\* collection it leaves behind
View(mode, st) == IF mode = "memFresh" THEN EmptyStore ELSE st
Commit(mode, st, view) == IF mode = "memFresh" THEN st ELSE view

IdsOf(items) == [i \in 1..Len(items) |-> items[i].id]
SeqRange(q) == {q[i] : i \in 1..Len(q)}

\* collection.get(...): lines 171-177 and 235-240
GetExisting(coll, env, onFailure) ==
    IF env.existing = "fail" THEN onFailure
    ELSE [ids |-> IdsOf(coll.items),
          documents |-> [i \in 1..Len(coll.items) |-> coll.items[i].document],
          metadatas |-> [i \in 1..Len(coll.items) |-> coll.items[i].metadata]]

\* a delete step that removes nothing
DeleteIds_Skipped(coll, ids_to_delete, env) == coll

\* lines 183-190: collection.delete, positional or by keyword; a failure is
\* swallowed
DeleteIds(coll, ids_to_delete, env) ==
    IF ids_to_delete # <<>> /\ env.delete # "fail"
    THEN [coll EXCEPT !.items = SelectSeq(coll.items,
                                   LAMBDA it : it.id \notin SeqRange(ids_to_delete))]
    ELSE coll

\* lines 199-204: collection.add
AddItems(coll, index_obj) ==
    [coll EXCEPT !.items = coll.items \o
        [k \in 1..Len(index_obj.ids) |->
            [id |-> index_obj.ids[k],
             document |-> index_obj.documents[k],
             metadata |-> index_obj.metadatas[k]]]]

(***************************************************************************)
(* save_index (lines 148-220): whether it raised and the store it leaves   *)
(***************************************************************************)
save_index(st, index_obj, mode, env) ==
    IF mode = "none" THEN [raised |-> TRUE, store |-> st]
    ELSE LET view == View(mode, st)
         IN IF view.exists /\ env.getColl = "raises"
            THEN \* get_collection and create_collection both fail
                 [raised |-> TRUE, store |-> st]
            ELSE LET coll == IF view.exists THEN view
                             ELSE [exists |-> TRUE, items |-> <<>>]
                     existing == GetExisting(coll, env, EmptyDict)
                     ids_to_delete == DictGet(existing, "ids", <<>>)
                     kept == DeleteIds(coll, ids_to_delete, env)
                 IN IF env.add = "raises"
                    THEN [raised |-> TRUE, store |-> Commit(mode, st, kept)]
                    ELSE [raised |-> FALSE,
                          store |-> Commit(mode, st, AddItems(kept, index_obj))]

(***************************************************************************)
(* load_index (lines 224-260): the handle, or None                         *)
(***************************************************************************)
NoneHandle ==
    [isNone |-> TRUE, persist_directory |-> "", collection_name |-> "", metadatas |-> <<>>]

\* lines 246-252
LoadedMetadatas(data) ==
    LET docs_ == DictGet(data, "documents", <<>>)
        mds == DictGet(data, "metadatas", <<>>)
        ids == DictGet(data, "ids", <<>>)
        count == IF Len(docs_) >= Len(mds) /\ Len(docs_) >= Len(ids) THEN Len(docs_)
                 ELSE IF Len(mds) >= Len(ids) THEN Len(mds) ELSE Len(ids)
    IN [i \in 1..count |->
          LET md == IF i <= Len(mds) THEN mds[i] ELSE EmptyDict
          IN IF "text" \notin DOMAIN md /\ i <= Len(docs_)
             THEN [k \in DOMAIN md \cup {"text"} |->
                      IF k = "text" THEN docs_[i] ELSE md[k]]
             ELSE md]

load_index(st, dir_exists, mode, env) ==
    IF ~dir_exists THEN NoneHandle
    ELSE IF mode = "none" THEN NoneHandle
    ELSE LET view == View(mode, st)
         IN IF ~view.exists \/ env.getColl = "raises" THEN NoneHandle
            ELSE [isNone |-> FALSE,
                  persist_directory |-> INDEX_DIR_DEFAULT,
                  collection_name |-> COLLECTION_NAME,
                  metadatas |-> LoadedMetadatas(GetExisting(view, env, EmptyDict))]

(***************************************************************************)
(* build_or_load_index (lines 264-273) on the state st = [docs, dirExists, *)
(* store, embedModel, nextId]: what it returns or that it raised, the      *)
(* state it leaves, and which of its collaborators it called               *)
(***************************************************************************)
Outcome(st, raised, ret, tookBuild, extracted, embedded, saved, built) ==
    [st |-> st, raised |-> raised, ret |-> ret, tookBuild |-> tookBuild,
     extracted |-> extracted, embedded |-> embedded, saved |-> saved, built |-> built]

\* build_index_from_docs (lines 122-144) on the state st: whether it raised
\* and where, whether the files were read, the artifact, the state it leaves
build_index_from_docs(st, env) ==
    IF PdfFiles(st.docs) = <<>>
    THEN \* line 128: FileNotFoundError
         [raised |-> TRUE, why |-> "no PDFs", extracted |-> FALSE,
          metadatas |-> <<>>, index |-> IndexObj(<<>>, st.nextId), st |-> st]
    ELSE LET built == IndexObj(st.docs, st.nextId)
             drawn == [st EXCEPT !.nextId = st.nextId + Len(built.ids)]
             got == get_model(st.embedModel, env.embedCtor)
         IN IF got.raised
            THEN \* line 50: SentenceTransformer(...) raises
                 [raised |-> TRUE, why |-> "_get_model", extracted |-> TRUE,
                  metadatas |-> built.metadatas, index |-> built, st |-> drawn]
            ELSE [raised |-> FALSE, why |-> "", extracted |-> TRUE,
                  metadatas |-> built.metadatas, index |-> built,
                  st |-> [drawn EXCEPT !.embedModel = got.model]]

\* lines 272-273, b being what build_index_from_docs has returned
AfterBuild(st, b, mode, env) ==
    IF b.raised
    THEN Outcome(b.st, TRUE, NoneHandle, TRUE, b.extracted, FALSE, FALSE, b.metadatas)
    ELSE LET sv == save_index(st.store, b.index, mode, env)
             saved == [b.st EXCEPT !.dirExists = TRUE, !.store = sv.store]
         IN IF sv.raised
            THEN Outcome(saved, TRUE, NoneHandle, TRUE, TRUE, TRUE, TRUE, b.metadatas)
            ELSE Outcome(saved, FALSE, load_index(sv.store, TRUE, mode, env),
                         TRUE, TRUE, TRUE, TRUE, b.metadatas)

\* lines 271-273; the artifact is built once and handed on
BuildSaveLoad(st, mode, env) ==
    CHOOSE out \in {AfterBuild(st, b, mode, env) : b \in {build_index_from_docs(st, env)}} : TRUE

\* a build_or_load_index that rebuilds whatever it finds
build_or_load_index_AlwaysBuilds(st, force_rebuild, mode, env) ==
    BuildSaveLoad(st, mode, env)

build_or_load_index(st, force_rebuild, mode, env) ==
    LET loaded == load_index(st.store, st.dirExists, mode, env)
    IN IF ~force_rebuild /\ ~loaded.isNone
       THEN Outcome(st, FALSE, loaded, FALSE, FALSE, FALSE, FALSE, <<>>)
       ELSE BuildSaveLoad(st, mode, env)

(***************************************************************************)
(* The documents the directory may hold                                    *)
(***************************************************************************)
FileA == File("a", "pdf", TRUE, <<Page(<<SP, "visa", SP, SP, "rules">>), PageNone>>)
FileB == File("B", "PDF", TRUE, <<Page(<<"fees">>)>>)
FileNotes == File("notes", "txt", TRUE, <<Page(<<"hello">>)>>)
FileBad == File("bad", "pdf", FALSE, <<Page(<<"lost">>)>>)
FileC == File("c", "pdf", TRUE,
              <<Page(<<"tours">>), Page(<<"city", SP, "tours">>), PageRaises, Page(<<"late">>)>>)

DocSets == { <<FileNotes>>, <<FileA>>, <<FileA, FileBad, FileB, FileNotes>>,
             <<FileBad, FileC>> }

(***************************************************************************)
(* The calls on the index store, one action per call                       *)
(***************************************************************************)
State == [docs |-> docs, dirExists |-> dirExists, store |-> store,
          embedModel |-> embedModel, nextId |-> nextId]

NoCall ==
    [op |-> "none", force |-> FALSE, healthy |-> TRUE, raised |-> FALSE,
     ret |-> NoneHandle, tookBuild |-> FALSE, extracted |-> FALSE,
     embedded |-> FALSE, saved |-> FALSE, built |-> <<>>, prior |-> 0]

StoreIdle ==
    /\ clientMode = "persistent"
    /\ docs = <<>>
    /\ dirExists = FALSE
    /\ store = EmptyStore
    /\ embedModel = NoModel
    /\ nextId = 1
    /\ last = NoCall

\* a fresh process: no index directory, or one left by an earlier run (which
\* the in-memory clients leave empty)
StoreStart ==
    /\ clientMode \in ClientModes
    /\ docs \in DocSets
    /\ dirExists \in BOOLEAN
    /\ store = EmptyStore
    /\ embedModel = NoModel
    /\ nextId = 1
    /\ last = NoCall

\* files are added to or removed from the documents directory
ChangeDocs ==
    /\ \E d \in DocSets \ {docs} : docs' = d
    /\ last' = [NoCall EXCEPT !.op = "docs_changed"]
    /\ UNCHANGED <<clientMode, dirExists, store, embedModel, nextId>>
    /\ UNCHANGED <<chunkVars, promptVars, saveVars, chatVars, ragVars>>

BuildOrLoadIndex ==
    \E force_rebuild \in BOOLEAN, env \in Envs :
        \E out \in {build_or_load_index(State, force_rebuild, clientMode, env)} :
           /\ out.tookBuild => nextId <= MaxIds
           /\ docs' = out.st.docs
           /\ dirExists' = out.st.dirExists
           /\ store' = out.st.store
           /\ embedModel' = out.st.embedModel
           /\ nextId' = out.st.nextId
           /\ last' = [op |-> "build_or_load_index", force |-> force_rebuild,
                       healthy |-> (env = Healthy),
                       raised |-> out.raised, ret |-> out.ret,
                       tookBuild |-> out.tookBuild, extracted |-> out.extracted,
                       embedded |-> out.embedded, saved |-> out.saved,
                       built |-> out.built,
                       prior |-> Len(View(clientMode, store).items)]
           /\ UNCHANGED <<clientMode, chunkVars, promptVars, saveVars, chatVars, ragVars>>

LoadIndex ==
    \E env \in LoadEnvs :
        /\ last' = [NoCall EXCEPT !.op = "load_index", !.healthy = (env = Healthy),
                       !.ret = load_index(store, dirExists, clientMode, env),
                       !.prior = Len(View(clientMode, store).items)]
        /\ UNCHANGED <<clientMode, docs, dirExists, store, embedModel, nextId>>
        /\ UNCHANGED <<chunkVars, promptVars, saveVars, chatVars, ragVars>>

(***************************************************************************)
(* retrieve (lines 277-352)                                                *)
(*                                                                         *)
(* A QueryEnv names what the engine does in one call of retrieve: whether  *)
(* get_collection and the model's constructor raise, and which of the      *)
(* three query calls of lines 292-306 answers, with what for "distances".  *)
(* The ranking is the engine's choice of nearest neighbours, best first:   *)
(* positions of items of the collection, no item twice.                    *)
(***************************************************************************)
DEFAULT_TOP_K == 4

QueryOutcomes ==
    {"distances", "distances_none", "distances_empty", "distances_absent", "plain",
     "raises"}

QueryEnvs == [getColl : {"ok", "raises"}, embedCtor : {"ok", "raises"},
              query : QueryOutcomes]

Rankings(n, top_k) ==
    LET m == Min(top_k, n)
    IN {q \in [1..m -> 1..n] : \A i, j \in 1..m : q[i] = q[j] => i = j}

\* the distance the engine reports for the hit of rank i
Distance(i) == i - 1

\* collection.query(...): the result dict, its lists nested in a list
QueryResults(coll, ranking, outcome) ==
    LET base == [ids |-> << [i \in 1..Len(ranking) |-> coll.items[ranking[i]].id] >>,
                 documents |-> << [i \in 1..Len(ranking) |-> coll.items[ranking[i]].document] >>,
                 metadatas |-> << [i \in 1..Len(ranking) |-> coll.items[ranking[i]].metadata] >>]
        dists == << [i \in 1..Len(ranking) |-> Distance(i)] >>
    IN IF outcome = "distances_absent" THEN base
       ELSE [k \in DOMAIN base \cup {"distances"} |->
               IF k # "distances" THEN base[k]
               ELSE IF outcome \in {"distances_none", "distances_empty"} THEN <<>>
               ELSE dists]

Max(a, b) == IF a > b THEN a ELSE b

\* lines 312-327: results.get(key, [[]])[0]; the handlers of lines 314-323
\* are not reached, every list being there
FirstList(results, key) == DictGet(results, key, << <<>> >>)[1]

\* lines 324-327: None[0] and [][0] raise, and every score is 0.0
Dists(results, outcome, n) ==
    IF outcome \in {"distances_none", "distances_empty"} THEN [i \in 1..n |-> 0]
    ELSE FirstList(results, "distances")

\* a loop that runs over the distances only
HitsOf_PerDistance(results, outcome) ==
    LET ids == FirstList(results, "ids")
        dists == IF outcome \in {"distances_none", "distances_empty"} THEN <<>>
                 ELSE FirstList(results, "distances")
    IN [i \in 1..Len(dists) |->
          Hit(dists[i], Some(ids[i]), FirstList(results, "documents")[i],
              DictGet(FirstList(results, "metadatas")[i], "source", None),
              DictGet(FirstList(results, "metadatas")[i], "page", NoneInt))]

\* lines 329-344
HitsOf(results, outcome) ==
    LET ids == FirstList(results, "ids")
        docs_ == FirstList(results, "documents")
        mds == FirstList(results, "metadatas")
        dists == Dists(results, outcome, Max(Len(ids), Max(Len(docs_), Len(mds))))
        count == Max(Max(Len(ids), Len(docs_)), Max(Len(mds), Len(dists)))
    IN [i \in 1..count |->
          LET meta == IF i <= Len(mds) THEN mds[i] ELSE EmptyDict
          IN Hit(IF i <= Len(dists) THEN dists[i] ELSE 0,
                 IF i <= Len(ids) THEN Some(ids[i]) ELSE None,
                 IF i <= Len(docs_) THEN docs_[i] ELSE <<>>,
                 DictGet(meta, "source", None),
                 DictGet(meta, "page", NoneInt))]

Raised(why, st) == [raised |-> TRUE, why |-> why, hits |-> <<>>, st |-> st]

\* a retrieve that builds its client before it looks at the handle
retrieve_ClientFirst(st, coll_store, index_obj, top_k, mode, env, ranking) ==
    LET made == [st EXCEPT !.dirExists = TRUE]
    IN IF mode = "none" THEN Raised("_create_client", made)
       ELSE IF index_obj.isNone THEN Raised("index_obj is None", made)
       ELSE Raised("get_collection", made)

\* st = [dirExists, embedModel]; why names the line that raised
retrieve(st, coll_store, index_obj, top_k, mode, env, ranking) ==
    IF index_obj.isNone THEN Raised("index_obj is None", st)
    ELSE LET made == [st EXCEPT !.dirExists = TRUE]
             view == View(mode, coll_store)
         IN IF mode = "none" THEN Raised("_create_client", made)
            ELSE IF ~view.exists \/ env.getColl = "raises"
            THEN Raised("get_collection", made)
            ELSE IF get_model(st.embedModel, env.embedCtor).raised
            THEN Raised("_get_model", made)
            ELSE LET ready == [made EXCEPT !.embedModel =
                                               get_model(st.embedModel, env.embedCtor).model]
                 IN IF env.query = "raises" THEN Raised("query", ready)
                    ELSE [raised |-> FALSE, why |-> "",
                          hits |-> HitsOf(QueryResults(view, ranking, env.query), env.query),
                          st |-> ready]

(***************************************************************************)
(* answer_with_rag (lines 374-396)                                         *)
(*                                                                         *)
(* The language-model function is its outcome: it raises, or it returns    *)
(* None, the empty string or a text.  A set of file names is iterated in   *)
(* an order of Python's choosing: order lists the set.                     *)
(***************************************************************************)
LlmOutcomes == {"raises", "none", "empty", "text"}

LlmError == <<"timeout">>
LlmText == <<"Visa", SP, "fees", SP, "are", SP, "listed", SP, "in", SP, "a.pdf.">>

\* lines 387 and 392
SourceFiles(retrieved) ==
    {retrieved[i].source.val : i \in {j \in 1..Len(retrieved) : Truthy(retrieved[j].source)}}

Orders(S) ==
    {q \in [1..Cardinality(S) -> S] : \A i, j \in 1..Cardinality(S) : q[i] = q[j] => i = j}

\* lines 388 and 393
FileList(order) == IF order # <<>> THEN Join(", ", order) ELSE <<"your documents">>

\* a fallback that names no file
LlmFailureAnswer_NoFiles(order, e) ==
    <<"I found relevant information but could not call the LLM (">> \o e \o <<").">>

\* line 389
LlmFailureAnswer(order, e) ==
    <<"I found relevant information in ">> \o FileList(order)
        \o <<" but could not call the LLM (">> \o e \o <<").">>

\* line 394
EmptyAnswerFallback(order) ==
    <<"I found relevant information in ">> \o FileList(order)
        \o <<", but could not generate a detailed answer.">>

\* the answer of the language model left as it is
WhenEmpty_Kept(answer, order) == answer.val

\* lines 391-394: not answer
WhenEmpty(answer, order) ==
    IF answer.isNone \/ CharLen(answer.val) = 0 THEN EmptyAnswerFallback(order)
    ELSE answer.val

\* lines 384-389: the answer after the try statement
Generated(llm, order) ==
    IF llm = "raises" THEN [isNone |-> FALSE, val |-> LlmFailureAnswer(order, LlmError)]
    ELSE IF llm = "none" THEN [isNone |-> TRUE, val |-> <<>>]
    ELSE IF llm = "empty" THEN [isNone |-> FALSE, val |-> <<>>]
    ELSE [isNone |-> FALSE, val |-> LlmText]

RagReturn(raised, why, llmCalled, retrieved, prompt, answer, st) ==
    [raised |-> raised, why |-> why, llmCalled |-> llmCalled, retrieved |-> retrieved,
     prompt |-> prompt, answer |-> answer, st |-> st]

answer_with_rag(st, coll_store, query, index_obj, llm, top_k, mode, env, ranking, order) ==
    IF index_obj.isNone
    THEN RagReturn(TRUE, "index_obj is None", FALSE, <<>>, <<>>, <<>>, st)
    ELSE LET r == retrieve(st, coll_store, index_obj, top_k, mode, env, ranking)
         IN IF r.raised THEN RagReturn(TRUE, r.why, FALSE, <<>>, <<>>, <<>>, r.st)
            ELSE RagReturn(FALSE, "", TRUE, r.hits,
                           assemble_prompt(query, r.hits, DEFAULT_MAX_CHARS).prompt,
                           WhenEmpty(Generated(llm, order), order), r.st)

(***************************************************************************)
(* A call of answer_with_rag in a process that holds a handle              *)
(***************************************************************************)
TopKs == {1, DEFAULT_TOP_K}

Fresh(d) == [docs |-> d, dirExists |-> FALSE, store |-> EmptyStore,
             embedModel |-> NoModel, nextId |-> 1]

\* the handle a reader holds from an earlier load
ReaderHandle == [NoneHandle EXCEPT !.isNone = FALSE,
                                  !.persist_directory = INDEX_DIR_DEFAULT,
                                  !.collection_name = COLLECTION_NAME]

\* the states in which a caller holds a handle (or None): before any build;
\* after a build; in a later process that finds the index of an earlier one;
\* after a rebuild whose add failed once the prior items were deleted; and,
\* where no client can be built, with a handle kept from a run that had one
HeldStates(d, mode) ==
    LET s0 == Fresh(d)
        b1 == build_or_load_index(s0, FALSE, mode, Healthy)
        b2 == build_or_load_index(b1.st, TRUE, mode, [Healthy EXCEPT !.add = "raises"])
    IN {[st |-> s0, handle |-> NoneHandle],
        [st |-> b1.st, handle |-> b1.ret],
        [st |-> [b1.st EXCEPT !.embedModel = NoModel], handle |-> b1.ret],
        [st |-> b2.st, handle |-> b1.ret]}
       \cup (IF mode = "none"
             THEN {[st |-> [s0 EXCEPT !.dirExists = TRUE], handle |-> ReaderHandle]}
             ELSE {})

RagIdle ==
    /\ ragPc = "idle"
    /\ ragArgs = [query |-> <<>>, index_obj |-> NoneHandle, llm |-> "text", top_k |-> 0]
    /\ ragRet = [raised |-> FALSE, why |-> "", llmCalled |-> FALSE, retrieved |-> <<>>,
                 prompt |-> <<>>, answer |-> <<>>, query |-> "", engineIds |-> <<>>]

RagStart ==
    /\ clientMode \in ClientModes
    /\ \E d \in DocSets : \E held \in HeldStates(d, clientMode) :
          /\ docs = held.st.docs
          /\ dirExists = held.st.dirExists
          /\ store = held.st.store
          /\ embedModel = held.st.embedModel
          /\ nextId = held.st.nextId
          /\ ragArgs \in [query : PromptQueries, index_obj : {held.handle},
                          llm : LlmOutcomes, top_k : TopKs]
    /\ last = NoCall
    /\ ragPc = "called"
    /\ ragRet = [raised |-> FALSE, why |-> "", llmCalled |-> FALSE, retrieved |-> <<>>,
                 prompt |-> <<>>, answer |-> <<>>, query |-> "", engineIds |-> <<>>]

\* what the engine answered to the query of a call that got that far: the
\* outcome of the query cascade and the ids of its results, best first
EngineIds(coll, ranking) == [i \in 1..Len(ranking) |-> coll.items[ranking[i]].id]

Answered(raised, coll, env, ranking) ==
    IF raised THEN [query |-> "", engineIds |-> <<>>]
    ELSE [query |-> env.query, engineIds |-> EngineIds(coll, ranking)]

\* a call of retrieve by itself
Retrieve ==
    /\ ragPc = "called"
    /\ \E env \in QueryEnvs,
          ranking \in Rankings(Len(View(clientMode, store).items), ragArgs.top_k) :
        \E out \in {retrieve([dirExists |-> dirExists, embedModel |-> embedModel], store,
                             ragArgs.index_obj, ragArgs.top_k, clientMode, env, ranking)} :
        \E eng \in {Answered(out.raised, View(clientMode, store), env, ranking)} :
            /\ ragRet' = [raised |-> out.raised, why |-> out.why, llmCalled |-> FALSE,
                          retrieved |-> out.hits, prompt |-> <<>>, answer |-> <<>>,
                          query |-> eng.query, engineIds |-> eng.engineIds]
            /\ dirExists' = out.st.dirExists
            /\ embedModel' = out.st.embedModel
    /\ ragPc' = "retrieved"
    /\ UNCHANGED <<ragArgs, clientMode, docs, store, nextId, last>>
    /\ UNCHANGED <<chunkVars, promptVars, saveVars, chatVars>>

AnswerWithRag ==
    /\ ragPc = "called"
    /\ \E env \in QueryEnvs,
          ranking \in Rankings(Len(View(clientMode, store).items), ragArgs.top_k) :
        \E hits \in {retrieve([dirExists |-> dirExists, embedModel |-> embedModel], store,
                              ragArgs.index_obj, ragArgs.top_k, clientMode, env, ranking).hits} :
        \E order \in Orders(SourceFiles(hits)) :
        \E out \in {answer_with_rag([dirExists |-> dirExists, embedModel |-> embedModel],
                                    store, ragArgs.query, ragArgs.index_obj, ragArgs.llm,
                                    ragArgs.top_k, clientMode, env, ranking, order)} :
        \E eng \in {Answered(out.raised, View(clientMode, store), env, ranking)} :
            /\ ragRet' = [raised |-> out.raised, why |-> out.why,
                          llmCalled |-> out.llmCalled, retrieved |-> out.retrieved,
                          prompt |-> out.prompt, answer |-> out.answer,
                          query |-> eng.query, engineIds |-> eng.engineIds]
            /\ dirExists' = out.st.dirExists
            /\ embedModel' = out.st.embedModel
    /\ ragPc' = "returned"
    /\ UNCHANGED <<ragArgs, clientMode, docs, store, nextId, last>>
    /\ UNCHANGED <<chunkVars, promptVars, saveVars, chatVars>>

(***************************************************************************)
(* One process calling build_index_from_docs and retrieve, again and again *)
(***************************************************************************)
\* a call of build_index_from_docs by itself: nothing is saved
BuildIndexFromDocs ==
    /\ nextId <= MaxIds
    /\ \E ctor \in {"ok", "raises"} :
        \E out \in {build_index_from_docs(State, [Healthy EXCEPT !.embedCtor = ctor])} :
            /\ embedModel' = out.st.embedModel
            /\ nextId' = out.st.nextId
            /\ last' = [NoCall EXCEPT !.op = "build_index_from_docs",
                                      !.healthy = (ctor = "ok"),
                                      !.raised = out.raised,
                                      !.extracted = out.extracted,
                                      !.embedded = ~out.raised,
                                      !.built = out.metadatas]
    /\ UNCHANGED <<clientMode, docs, dirExists, store>>
    /\ UNCHANGED <<chunkVars, promptVars, saveVars, chatVars, ragVars>>

\* retrieve has returned or raised, and the caller prepares its next call
\* with the handle it holds
NextCall ==
    /\ ragPc = "retrieved"
    /\ ragPc' = "called"
    /\ \E k \in TopKs : ragArgs' = [ragArgs EXCEPT !.top_k = k]
    /\ ragRet' = [raised |-> FALSE, why |-> "", llmCalled |-> FALSE, retrieved |-> <<>>,
                  prompt |-> <<>>, answer |-> <<>>, query |-> "", engineIds |-> <<>>]
    /\ UNCHANGED <<storeVars, chunkVars, promptVars, saveVars, chatVars>>

(***************************************************************************)
(* save_index (lines 148-220) step by step, beside a reader                *)
(*                                                                         *)
(* The writer is the one call of save_index that runs; each of its engine  *)
(* calls is one step.  The reader is another caller of load_index or       *)
(* retrieve on the same collection, each of its calls one step, taken at   *)
(* any moment.  The clients share the collection: a PersistentClient on    *)
(* index_dir, or the in-memory store of one process.                       *)
(***************************************************************************)
NothingSeen == [op |-> "none", at |-> "", raised |-> FALSE, texts |-> {}]

NoSave == [index_obj |-> IndexObj(<<>>, 1), env |-> Healthy, prior |-> <<>>,
           ids_to_delete |-> <<>>, why |-> ""]

SaveIdle ==
    /\ savePc = "idle"
    /\ saveCtx = NoSave
    /\ observed = NothingSeen

\* the listings build_index_from_docs accepts
Buildable == {d \in DocSets : PdfFiles(d) # <<>>}

\* the collection before the call: absent, or as a build left it
PriorStates(mode) ==
    {Fresh(<<>>)} \cup {build_or_load_index(Fresh(d), FALSE, mode, Healthy).st : d \in Buildable}

\* save_index is about to be called with the artifact just built
SaveStart ==
    /\ clientMode \in {"persistent", "memShared"}
    /\ \E before \in PriorStates(clientMode), d \in Buildable,
          env \in {e \in Envs : e.embedCtor = "ok"} :
        \E built \in {build_index_from_docs([before EXCEPT !.docs = d], Healthy)} :
          /\ docs = d
          /\ dirExists = before.dirExists
          /\ store = before.store
          /\ embedModel = built.st.embedModel
          /\ nextId = built.st.nextId
          /\ saveCtx = [NoSave EXCEPT !.index_obj = built.index, !.env = env,
                                      !.prior = before.store.items]
    /\ last = NoCall
    /\ savePc = "start"
    /\ observed = NothingSeen

\* lines 152-166: the client, then get_collection or create_collection
SaveOpen ==
    /\ savePc = "start"
    /\ dirExists' = TRUE
    /\ IF store.exists /\ saveCtx.env.getColl = "raises"
       THEN /\ savePc' = "raised"
            /\ saveCtx' = [saveCtx EXCEPT !.why = "collection"]
            /\ UNCHANGED store
       ELSE /\ savePc' = "opened"
            /\ store' = [store EXCEPT !.exists = TRUE]
            /\ UNCHANGED saveCtx
    /\ UNCHANGED <<clientMode, docs, embedModel, nextId, last, observed>>
    /\ UNCHANGED <<chunkVars, promptVars, ragVars, chatVars>>

\* lines 169-180: the ids the collection holds now
SaveReadIds ==
    /\ savePc = "opened"
    /\ savePc' = "read"
    /\ saveCtx' = [saveCtx EXCEPT !.ids_to_delete =
                      DictGet(GetExisting(store, saveCtx.env, EmptyDict), "ids", <<>>)]
    /\ UNCHANGED <<storeVars, observed, chunkVars, promptVars, ragVars, chatVars>>

\* lines 183-190
SaveDelete ==
    /\ savePc = "read"
    /\ savePc' = "deleted"
    /\ store' = DeleteIds(store, saveCtx.ids_to_delete, saveCtx.env)
    /\ UNCHANGED <<clientMode, docs, dirExists, embedModel, nextId, last>>
    /\ UNCHANGED <<saveCtx, observed, chunkVars, promptVars, ragVars, chatVars>>

\* lines 193-220: collection.add, then persist or shutdown
SaveAdd ==
    /\ savePc = "deleted"
    /\ IF saveCtx.env.add = "raises"
       THEN /\ savePc' = "raised"
            /\ saveCtx' = [saveCtx EXCEPT !.why = "add"]
            /\ UNCHANGED store
       ELSE /\ savePc' = "done"
            /\ store' = AddItems(store, saveCtx.index_obj)
            /\ UNCHANGED saveCtx
    /\ UNCHANGED <<clientMode, docs, dirExists, embedModel, nextId, last, observed>>
    /\ UNCHANGED <<chunkVars, promptVars, ragVars, chatVars>>

\* a reader calls load_index (lines 224-260)
ReadLoad ==
    /\ \E ret \in {load_index(store, dirExists, clientMode, Healthy)} :
          observed' = [op |-> "load_index", at |-> savePc, raised |-> FALSE,
                       texts |-> {ret.metadatas[i].text : i \in 1..Len(ret.metadatas)}]
    /\ UNCHANGED <<storeVars, savePc, saveCtx, chunkVars, promptVars, ragVars, chatVars>>

\* a reader calls retrieve (lines 277-352) in a process of its own
ReadRetrieve ==
    /\ \E ranking \in Rankings(Len(store.items), DEFAULT_TOP_K) :
        \E out \in {retrieve([dirExists |-> dirExists, embedModel |-> NoModel], store,
                             ReaderHandle, DEFAULT_TOP_K, clientMode,
                             [getColl |-> "ok", embedCtor |-> "ok", query |-> "distances"],
                             ranking)} :
            /\ observed' = [op |-> "retrieve", at |-> savePc, raised |-> out.raised,
                            texts |-> {out.hits[i].chunk : i \in 1..Len(out.hits)}]
            /\ dirExists' = out.st.dirExists
    /\ UNCHANGED <<clientMode, docs, store, embedModel, nextId, last>>
    /\ UNCHANGED <<savePc, saveCtx, chunkVars, promptVars, ragVars, chatVars>>

(***************************************************************************)
(* The booking dialogue (booking_flow.py)                                  *)
(*                                                                         *)
(* A text is a TLC string.  What strip(), lower(), the substring tests,    *)
(* the regular expressions and the parsers make of a text is tabulated     *)
(* for the texts of the model: the messages a user sends (Messages) and    *)
(* the values the validators hand back, which the confirmation step gives  *)
(* to the validators once more.  A day is a number, today the day the      *)
(* process is in.                                                          *)
(***************************************************************************)
MaxDay == 1
MaxBookings == 1
MaxEscapes == 2
MaxAppended == 28

MAX_MEMORY == 25
MAX_NAME_LEN == 100
MIN_NAME_LEN == 3
MAX_TEXT_LEN == 200
MIN_PHONE_DIGITS == 7
MAX_PHONE_DIGITS == 15
MIN_DESTINATION_LEN == 2

REQUIRED_SLOTS == <<"name", "email", "phone", "destination", "date", "time">>

\* what the user types in an active booking or before one
Messages ==
    {"I want to book a trip", " Y ", "Confirm", "no", "New Zealand",
     "Tom & Jerry", "Ann@Mail.com", "+61 400-123-456", "2099-12-31", "9:05",
     "change date", "Change colour"}

\* str.strip(): " Y " is the one text of the model with blanks at its ends
Strip(t) == IF t = " Y " THEN "Y" ELSE t

\* str.lower(): the texts of the model that hold capital letters
Lower(t) ==
    CASE t = "I want to book a trip" -> "i want to book a trip"
      [] t = "Y" -> "y"
      [] t = " Y " -> " y "
      [] t = "Confirm" -> "confirm"
      [] t = "New Zealand" -> "new zealand"
      [] t = "Tom & Jerry" -> "tom & jerry"
      [] t = "Ann@Mail.com" -> "ann@mail.com"
      [] t = "Change colour" -> "change colour"
      [] t = "Which visa do I need?" -> "which visa do i need?"
      [] OTHER -> t

\* k in t, for the lower-cased messages and the words the program looks for
\* ("which" holds "hi")
Occurs ==
    {<<"i want to book a trip", "book">>, <<"i want to book a trip", "trip">>,
     <<"new zealand", "new zealand">>, <<"hi", "hi">>,
     <<"which visa do i need?", "hi">>, <<"which visa do i need?", "visa">>}

Contains(t, k) == <<t, k>> \in Occurs

\* re.search(r"change\s+(\w+)", lower): group 1, or None
ChangeField(lower) ==
    CASE lower = "change date" -> Some("date")
      [] lower = "change colour" -> Some("colour")
      [] OTHER -> None

\* html.escape writes "&" as "&amp;", so that the escaped form of an escaped
\* text is longer again: "Tom & Jerry" after n escapes
RECURSIVE Amps(_)
Amps(n) == IF n = 0 THEN "" ELSE "amp;" \o Amps(n - 1)

AmpName(n) == "Tom &" \o Amps(n) \o " Jerry"

HtmlEscape(s) ==
    IF \E n \in 0..MaxEscapes : s = AmpName(n)
    THEN AmpName(1 + CHOOSE n \in 0..MaxEscapes : s = AmpName(n))
    ELSE s

\* the texts the model lets a slot hold: escaped at most MaxEscapes times
WithinEscapes(s) ==
    (\E n \in 0..(MaxEscapes + 2) : s = AmpName(n)) =>
        \E n \in 0..MaxEscapes : s = AmpName(n)

\* _sanitize_text (lines 41-50): the texts of the model are printable, hold
\* single blanks and stay below max_len, which leaves html.escape
sanitize_text(s, max_len) == IF s = "" THEN "" ELSE HtmlEscape(s)

Valid(val) == [ok |-> TRUE, val |-> val]
Invalid(msg) == [ok |-> FALSE, val |-> msg]

validate_name(name) ==
    IF Strip(name) = "" THEN Invalid("Name cannot be empty.")
    ELSE LET name_clean == sanitize_text(name, MAX_NAME_LEN)
         IN IF Len(name_clean) < MIN_NAME_LEN
            THEN Invalid("Name too short (min 3 characters).")
            ELSE Valid(name_clean)

\* EMAIL_RE (line 36) matches the texts with one "@" between a local part
\* and a dotted domain
MatchesEmailRe(s) == s \in {"Ann@Mail.com", "ann@mail.com"}

\* parseaddr(email)[1]: of a text without "@" it makes an address without
\* "@"; the two addresses of the model come back as they are
ParsedAddr(s) == s

validate_email(email) ==
    IF Strip(email) = "" THEN Invalid("Email cannot be empty.")
    ELSE LET e == Strip(email)
             parsed == ParsedAddr(e)
         IN IF MatchesEmailRe(e) THEN Valid(Lower(e))
            ELSE IF parsed # "" /\ MatchesEmailRe(parsed) THEN Valid(Lower(parsed))
            ELSE Invalid("Invalid email format.")

\* re.sub(r"\D", "", raw)
Digits(raw) ==
    CASE raw \in {"+61 400-123-456", "+61400123456"} -> "61400123456"
      [] raw \in {"2099-12-31", "20991231"} -> "20991231"
      [] raw = "9:05" -> "905"
      [] OTHER -> ""

StartsWithPlus(raw) == raw \in {"+61 400-123-456", "+61400123456"}

validate_phone(phone) ==
    IF Strip(phone) = "" THEN Invalid("Phone number cannot be empty.")
    ELSE LET raw == Strip(phone)
             plus == IF StartsWithPlus(raw) THEN "+" ELSE ""
             digits == Digits(raw)
         IN IF Len(digits) < MIN_PHONE_DIGITS \/ Len(digits) > MAX_PHONE_DIGITS
            THEN Invalid("Phone number must have between 7 and 15 digits.")
            ELSE Valid(plus \o digits)

validate_destination(dest) ==
    IF Strip(dest) = "" THEN Invalid("Booking/service type cannot be empty.")
    ELSE LET clean == sanitize_text(dest, MAX_TEXT_LEN)
         IN IF Len(clean) < MIN_DESTINATION_LEN
            THEN Invalid("Provide a more descriptive destination or package name.")
            ELSE Valid(clean)

\* the days of the model: day d is "2025-06-1d", and 2099-12-31 is a day
\* that no run reaches
FarDay == 27000
IsoFormat(day) == IF day = FarDay THEN "2099-12-31" ELSE "2025-06-" \o ToString(10 + day)
IsoDays == (0..(MaxDay + 1)) \cup {FarDay}

\* re.match(r"^\d{4}-\d{2}-\d{2}$", s) and date.fromisoformat(s)
IsIsoDate(s) == \E d \in IsoDays : s = IsoFormat(d)
FromIsoFormat(s) == CHOOSE d \in IsoDays : s = IsoFormat(d)

\* dateutil's parse(s, fuzzy=True): a text without a date or a time makes
\* it raise; a time alone is that time on the present day, a date alone is
\* that date at midnight; the digit groups of the telephone number give
\* two years, which makes it raise
NotParsed == [raised |-> TRUE, day |-> 0, time |-> ""]
FuzzyParse(s, day) ==
    CASE s = "9:05" -> [raised |-> FALSE, day |-> day, time |-> "09:05"]
      [] s = "2099-12-31" -> [raised |-> FALSE, day |-> FarDay, time |-> "00:00"]
      [] OTHER -> NotParsed

validate_date(date_text, day) ==
    IF Strip(date_text) = "" THEN Invalid("Date cannot be empty.")
    ELSE LET date_text_str == Strip(date_text)
             parsed == FuzzyParse(date_text_str, day)
             failed == ~IsIsoDate(date_text_str) /\ parsed.raised
             dt == IF IsIsoDate(date_text_str) THEN FromIsoFormat(date_text_str)
                   ELSE parsed.day
         IN IF failed THEN Invalid("Invalid date.")
            ELSE IF dt < day THEN Invalid("Date cannot be in the past.")
            ELSE Valid(IsoFormat(dt))

\* re.match(r"^([01]?\d|2[0-3]):([0-5]\d)$", t), written as HH:MM
HhMm(t) ==
    CASE t \in {"9:05", "09:05"} -> Some("09:05")
      [] t = "00:00" -> Some("00:00")
      [] OTHER -> None

validate_time(time_text, day) ==
    IF Strip(time_text) = "" THEN Invalid("Time cannot be empty.")
    ELSE LET t == Strip(time_text)
             hhmm == HhMm(t)
             parsed == FuzzyParse(t, day)
         IN IF ~hhmm.isNone THEN Valid(hhmm.val)
            ELSE IF parsed.raised THEN Invalid("Could not parse time.")
            ELSE Valid(parsed.time)

(***************************************************************************)
(* booking_step (lines 249-399)                                            *)
(*                                                                         *)
(* The session is st.session_state: booking_started is "unset" while the   *)
(* key is missing, else "False", "asked" or "True"; booking_slots is the   *)
(* dict of the slots.  booking_step works on the dict the session holds,   *)
(* so what it writes to a slot is in the session whatever it returns.      *)
(***************************************************************************)
\* d[k] = v and d.pop(k, None)
Put(d, k, v) == [x \in (DOMAIN d) \cup {k} |-> IF x = k THEN v ELSE d[x]]
Pop_All(d, k) == EmptyDict

Pop(d, k) ==
    IF (DOMAIN d) \ {k} = {} THEN EmptyDict
    ELSE [x \in (DOMAIN d) \ {k} |-> d[x]]

\* bool(slots.get(k))
Filled(slots, k) == DictGet(slots, k, "") # ""

\* init_session_state (main.py, lines 66-76)
NewSession ==
    [booking_started |-> "unset", booking_slots |-> EmptyDict, chat_memory |-> <<>>,
     index_obj |-> NoneHandle, index_loaded |-> FALSE, index_status |-> "unset"]

\* bool(session_state.get("booking_started"))
Started(ss) == ss.booking_started \in {"asked", "True"}

Reply(kind, about) == [kind |-> kind, about |-> about]
NoReply == Reply("", "")
slot_prompt(slot_name) == Reply("slot_prompt", slot_name)
confirm_summary(slots) ==
    [kind |-> "confirm_summary",
     about |-> [i \in 1..Len(REQUIRED_SLOTS) |-> DictGet(slots, REQUIRED_SLOTS[i], "")]]

\* the words of line 264
StartWords ==
    {"book", "appointment", "reserve", "schedule", "consultation", "meeting", "trip"}

\* what the database and the mail helper do in one call: _save_booking_to_db
\* commits or rolls back (lines 138-172); _send_confirmation_email sends,
\* finds no SMTP settings, fails within its try, or raises from the reads
\* of the settings that no try encloses (lines 184-188)
DbOutcomes == {"saved", "error"}
MailOutcomes == {"sent", "not_configured", "send_failed", "raises"}

\* the dict of line 364, in the order of its keys
ConfirmValidators == <<"name", "email", "phone", "destination", "date", "time">>

Validate(k, v, day) ==
    CASE k = "name" -> validate_name(v)
      [] k = "email" -> validate_email(v)
      [] k = "phone" -> validate_phone(v)
      [] k = "destination" -> validate_destination(v)
      [] k = "date" -> validate_date(v, day)
      [] k = "time" -> validate_time(v, day)

\* the loop of lines 372-376: each value that passes is written back before
\* the next one is looked at
Revalidate_Skipped(slots, i, passed, day) ==
    [ok |-> TRUE, slots |-> slots, passed |-> passed, failed |-> "", msg |-> ""]

RECURSIVE Revalidate(_, _, _, _)
Revalidate(slots, i, passed, day) ==
    IF i > Len(ConfirmValidators)
    THEN [ok |-> TRUE, slots |-> slots, passed |-> passed, failed |-> "", msg |-> ""]
    ELSE LET k == ConfirmValidators[i]
             r == Validate(k, DictGet(slots, k, ""), day)
         IN IF ~r.ok
            THEN [ok |-> FALSE, slots |-> slots, passed |-> passed,
                  failed |-> k, msg |-> r.val]
            ELSE Revalidate(Put(slots, k, r.val), i + 1, passed \cup {k}, day)

\* what a call of booking_step leaves and answers: the session, the reply
\* (none when it raises), the slots whose validators passed in the loop of
\* the confirmation, and what became of the save and of the mail
Step(ss, reply) ==
    [ss |-> ss, reply |-> reply, raised |-> FALSE, validated |-> {},
     saveCalled |-> FALSE, saveOk |-> FALSE, mailCalled |-> FALSE, mailOk |-> FALSE]

\* lines 273-274, 384-385 and 393-394: the booking is over
Ended_KeepsSlots(ss) == [ss EXCEPT !.booking_started = "False"]

Ended(ss) == [ss EXCEPT !.booking_slots = EmptyDict, !.booking_started = "False"]

\* lines 268-277
AskedStage(ss, lower) ==
    IF lower \in {"yes", "y"}
    THEN Step([ss EXCEPT !.booking_started = "True"], slot_prompt("destination"))
    ELSE IF lower \in {"no", "n", "cancel", "stop"}
    THEN Step(Ended(ss), Reply("cancelled", ""))
    ELSE Step(ss, Reply("reply_yes_or_no", ""))

\* lines 286-294
ChangeStage(ss, field) ==
    IF field \in SeqRange(REQUIRED_SLOTS)
    THEN Step([ss EXCEPT !.booking_slots = Pop(ss.booking_slots, field)],
              slot_prompt(field))
    ELSE Step(ss, Reply("unknown_field", field))

\* lines 297-315
DestinationStage(ss, lower) ==
    LET dest == IF Contains(lower, "australia") THEN "Australia"
                ELSE IF Contains(lower, "new zealand") \/ Contains(lower, "newzealand")
                THEN "New Zealand"
                ELSE ""
        r == validate_destination(dest)
    IN IF dest = "" THEN Step(ss, slot_prompt("destination"))
       ELSE IF ~r.ok THEN Step(ss, Reply("invalid", r.val))
       ELSE Step([ss EXCEPT !.booking_slots = Put(ss.booking_slots, "destination", r.val)],
                 slot_prompt("name"))

\* lines 318-360: the slot is filled with what its validator hands back and
\* the reply asks for the slot that follows; a name that fails is asked for
\* again, the other validators answer with their message
FillStage(ss, slot, r, then) ==
    IF ~r.ok
    THEN Step(ss, IF slot = "name" THEN slot_prompt("name") ELSE Reply("invalid", r.val))
    ELSE LET slots == Put(ss.booking_slots, slot, r.val)
         IN Step([ss EXCEPT !.booking_slots = slots],
                 IF then = "" THEN confirm_summary(slots) ELSE slot_prompt(then))

\* lines 378-390, once the validators have passed
SaveStage(ss, slots, passed, count, db, mail) ==
    LET res == ToString(count + 1)
        kept == [ss EXCEPT !.booking_slots = slots]
        called == [Step(kept, NoReply) EXCEPT !.validated = passed, !.saveCalled = TRUE]
    IN IF db # "saved"
       THEN [called EXCEPT !.reply = Reply("save_failed", "")]
       ELSE IF mail = "raises"
       THEN [called EXCEPT !.ss.booking_slots = Put(slots, "_booking_id", res),
                           !.saveOk = TRUE, !.mailCalled = TRUE, !.raised = TRUE]
       ELSE [called EXCEPT !.ss = Ended(kept),
                           !.saveOk = TRUE, !.mailCalled = TRUE,
                           !.mailOk = (mail = "sent"),
                           !.reply = Reply(IF mail = "sent" THEN "confirmed_mail_sent"
                                           ELSE "confirmed_mail_not_sent", res)]

\* lines 363-399
ConfirmStage(ss, lower, day, count, db, mail) ==
    IF lower \in {"yes", "y", "confirm", "confirmed"}
    THEN LET v == Revalidate(ss.booking_slots, 1, {}, day)
         IN IF ~v.ok
            THEN [Step([ss EXCEPT !.booking_slots = v.slots], Reply("invalid", v.failed))
                    EXCEPT !.validated = v.passed]
            ELSE SaveStage(ss, v.slots, v.passed, count, db, mail)
    ELSE IF lower \in {"no", "cancel", "stop"}
    THEN Step(Ended(ss), Reply("cancelled", ""))
    ELSE Step(ss, confirm_summary(ss.booking_slots))

\* the slots asked for in the order of REQUIRED_SLOTS
ActiveStage_RequiredOrder(ss, txt, lower, day, count, db, mail) ==
    LET slots == ss.booking_slots
        m == ChangeField(lower)
    IN IF ~m.isNone THEN ChangeStage(ss, m.val)
       ELSE IF ~Filled(slots, "name") THEN FillStage(ss, "name", validate_name(txt), "email")
       ELSE IF ~Filled(slots, "email") THEN FillStage(ss, "email", validate_email(txt), "phone")
       ELSE IF ~Filled(slots, "phone") THEN FillStage(ss, "phone", validate_phone(txt), "destination")
       ELSE IF ~Filled(slots, "destination") THEN DestinationStage(ss, lower)
       ELSE IF ~Filled(slots, "date") THEN FillStage(ss, "date", validate_date(txt, day), "time")
       ELSE IF ~Filled(slots, "time") THEN FillStage(ss, "time", validate_time(txt, day), "")
       ELSE ConfirmStage(ss, lower, day, count, db, mail)

\* lines 283-399
ActiveStage(ss, txt, lower, day, count, db, mail) ==
    LET slots == ss.booking_slots
        m == ChangeField(lower)
    IN IF ~m.isNone THEN ChangeStage(ss, m.val)
       ELSE IF ~Filled(slots, "destination") THEN DestinationStage(ss, lower)
       ELSE IF ~Filled(slots, "name") THEN FillStage(ss, "name", validate_name(txt), "email")
       ELSE IF ~Filled(slots, "email") THEN FillStage(ss, "email", validate_email(txt), "phone")
       ELSE IF ~Filled(slots, "phone") THEN FillStage(ss, "phone", validate_phone(txt), "date")
       ELSE IF ~Filled(slots, "date") THEN FillStage(ss, "date", validate_date(txt, day), "time")
       ELSE IF ~Filled(slots, "time") THEN FillStage(ss, "time", validate_time(txt, day), "")
       ELSE ConfirmStage(ss, lower, day, count, db, mail)

booking_step(user_text, ss, day, count, db, mail) ==
    LET txt == Strip(user_text)
        lower == Lower(txt)
        asks == ~Started(ss) /\ \E k \in StartWords : Contains(lower, k)
    IN IF asks
       THEN Step([ss EXCEPT !.booking_started = "asked"], Reply("start_booking", ""))
       ELSE IF ss.booking_started = "asked" THEN AskedStage(ss, lower)
       ELSE IF ~Started(ss) THEN Step(ss, Reply("say_book", ""))
       ELSE ActiveStage(ss, txt, lower, day, count, db, mail)

(***************************************************************************)
(* The chat router (chat_logic.py) and the buttons of main.py              *)
(*                                                                         *)
(* An entry of the chat memory stands for the dict {"role", "content"} it  *)
(* is: its role, and n, which numbers the entries in the order in which    *)
(* _add_to_memory was given them.                                          *)
(***************************************************************************)
add_to_memory_PopsNewest(mem, role, n) ==
    LET m == Append(mem, [role |-> role, n |-> n])
    IN IF Len(m) > MAX_MEMORY THEN SubSeq(m, 1, Len(m) - 1) ELSE m

\* _add_to_memory (lines 23-28)
add_to_memory(mem, role, n) ==
    LET m == Append(mem, [role |-> role, n |-> n])
    IN IF Len(m) > MAX_MEMORY THEN Tail(m) ELSE m

\* the two calls that follow a reply: the user's text, then the reply
Remember(ss, n) ==
    [ss EXCEPT !.chat_memory =
        add_to_memory(add_to_memory(ss.chat_memory, "user", n + 1), "assistant", n + 2)]

BOOKING_KEYWORDS ==
    {"book", "appointment", "reserve", "schedule", "consultation", "meeting",
     "trip", "seat"}
RAG_KEYWORDS ==
    {"pdf", "document", "policy", "package", "itinerary", "visa", "insurance",
     "included", "inclusion"}
Greetings == {"hi", "hello", "hey", "thanks", "thank you"}

\* detect_intent (lines 60-68)
detect_intent(t) ==
    LET txt == Lower(t)
    IN IF \E k \in BOOKING_KEYWORDS : Contains(txt, k) THEN "booking"
       ELSE IF \E k \in RAG_KEYWORDS : Contains(txt, k) THEN "rag"
       ELSE IF \E g \in Greetings : Contains(txt, g) THEN "smalltalk"
       ELSE "rag"

\* where handle_user_message (lines 106-128) sends a text, and whether
\* detect_intent had a say
Routed(route, byIntent) == [route |-> route, byIntent |-> byIntent]

RouteOf_IntentFirst(ss, user_text) == Routed(detect_intent(user_text), TRUE)

RouteOf(ss, user_text) ==
    IF Started(ss) THEN Routed("booking", FALSE)
    ELSE Routed(detect_intent(user_text), TRUE)

\* what the user types in the chat
ChatMessages ==
    {"hi", "Which visa do I need?", "I want to book a trip", " Y ", "no", "New Zealand"}

\* the query of a question, piece by piece
QueryPieces(user_text) ==
    IF user_text = "Which visa do I need?"
    THEN <<"Which", SP, "visa", SP, "do", SP, "I", SP, "need?">>
    ELSE <<user_text>>

\* handle_rag_query (lines 72-93), given what answer_with_rag returned or
\* that it raised: without a handle it answers at once and remembers nothing
handle_rag_query(ss, n, rag) ==
    IF ss.index_obj.isNone
    THEN [ss |-> ss, reply |-> Reply("no_documents", ""), appended |-> n]
    ELSE [ss |-> Remember(ss, n),
          reply |-> IF rag.raised THEN Reply("rag_failed", rag.why)
                    ELSE IF CharLen(rag.answer) = 0 THEN Reply("no_concise_answer", "")
                    ELSE Reply("answer", rag.answer),
          appended |-> n + 2]

\* handle_booking_intent (lines 97-102): when booking_step raises, the two
\* calls of _add_to_memory are not reached
handle_booking_intent(n, b) ==
    IF b.raised THEN [ss |-> b.ss, reply |-> NoReply, appended |-> n]
    ELSE [ss |-> Remember(b.ss, n), reply |-> b.reply, appended |-> n + 2]

\* the small talk of lines 119-126
Smalltalk(ss, n) ==
    [ss |-> Remember(ss, n), reply |-> Reply("greeting", ""), appended |-> n + 2]

\* handle_user_message (lines 106-128), given what booking_step and
\* answer_with_rag do with the text
handle_user_message(ss, user_text, n, b, rag) ==
    LET r == RouteOf(ss, user_text)
    IN CASE r.route = "booking" -> handle_booking_intent(n, b)
         [] r.route = "smalltalk" -> Smalltalk(ss, n)
         [] OTHER -> handle_rag_query(ss, n, rag)

NoStep ==
    [op |-> "none", text |-> "", route |-> "", byIntent |-> FALSE, reply |-> NoReply,
     raised |-> FALSE, validated |-> {}, saveCalled |-> FALSE, saveOk |-> FALSE,
     mailCalled |-> FALSE, mailOk |-> FALSE]

ChatIdle ==
    /\ session_state = NewSession
    /\ today = 0
    /\ bookings = 0
    /\ appended = 0
    /\ step = NoStep

\* the database is asked in a step that reaches line 378, the mail helper
\* once the booking is saved
DbAsked(user_text, ss, day, count) ==
    booking_step(user_text, ss, day, count, "saved", "sent").saveCalled

DbChoices(asked) == IF asked THEN DbOutcomes ELSE {"saved"}
MailChoices(asked, db) == IF asked /\ db = "saved" THEN MailOutcomes ELSE {"sent"}

\* a call of retrieve or of answer_with_rag that is not made
NotAsked ==
    RagReturn(FALSE, "", FALSE, <<>>, <<>>, <<>>,
              [dirExists |-> FALSE, embedModel |-> NoModel])

\* what the engine does with the question of a chat: the collection opens,
\* and the query answers with distances or raises
ChatEnvs == {e \in QueryEnvs : e.getColl = "ok" /\ e.query \in {"distances", "raises"}}

\* a call of booking_step with the session
BookingStep ==
    \E user_text \in Messages :
    \E asked \in {DbAsked(user_text, session_state, today, bookings)} :
    \E db \in DbChoices(asked) :
    \E mail \in MailChoices(asked, db) :
        \E out \in {booking_step(user_text, session_state, today, bookings, db, mail)} :
            /\ out.saveOk => bookings < MaxBookings
            /\ WithinEscapes(DictGet(out.ss.booking_slots, "name", ""))
            /\ session_state' = out.ss
            /\ bookings' = IF out.saveOk THEN bookings + 1 ELSE bookings
            /\ step' = [op |-> "booking_step", text |-> user_text, route |-> "booking",
                        byIntent |-> FALSE, reply |-> out.reply, raised |-> out.raised,
                        validated |-> out.validated, saveCalled |-> out.saveCalled,
                        saveOk |-> out.saveOk, mailCalled |-> out.mailCalled,
                        mailOk |-> out.mailOk]
            /\ UNCHANGED <<today, appended>>
            /\ UNCHANGED <<chunkVars, promptVars, storeVars, ragVars, saveVars>>

\* the "Clear Chat" button (main.py, lines 266-270); the list of the shown
\* messages is not part of the model
ClearChat ==
    /\ session_state' = [session_state EXCEPT !.chat_memory = <<>>,
                                              !.booking_slots = EmptyDict]
    /\ step' = [NoStep EXCEPT !.op = "clear_chat"]
    /\ UNCHANGED <<today, bookings, appended>>
    /\ UNCHANGED <<chunkVars, promptVars, storeVars, ragVars, saveVars>>

\* the day ends
Midnight ==
    /\ today < MaxDay
    /\ today' = today + 1
    /\ step' = [NoStep EXCEPT !.op = "midnight"]
    /\ UNCHANGED <<session_state, bookings, appended>>
    /\ UNCHANGED <<chunkVars, promptVars, storeVars, ragVars, saveVars>>

\* a message typed in the chat (main.py, lines 238-253): the router, the
\* dialogue or the pipeline behind it, and the memory
HandleUserMessage ==
    /\ appended + 2 <= MaxAppended
    /\ \E user_text \in ChatMessages :
       \E r \in {RouteOf(session_state, user_text)} :
       \E asked \in {r.route = "booking"
                      /\ DbAsked(user_text, session_state, today, bookings)},
          asksRag \in {r.route = "rag" /\ ~session_state.index_obj.isNone} :
       \E db \in DbChoices(asked) :
       \E mail \in MailChoices(asked, db) :
       \E env \in (IF asksRag THEN ChatEnvs ELSE {CHOOSE e \in ChatEnvs : TRUE}),
          llm \in (IF asksRag THEN LlmOutcomes ELSE {"text"}),
          ranking \in (IF asksRag
                       THEN Rankings(Len(View(clientMode, store).items), DEFAULT_TOP_K)
                       ELSE {<<>>}) :
       \E hits \in (IF asksRag
                    THEN {retrieve([dirExists |-> dirExists, embedModel |-> embedModel],
                                   store, session_state.index_obj, DEFAULT_TOP_K,
                                   clientMode, env, ranking).hits}
                    ELSE {<<>>}) :
       \E order \in Orders(SourceFiles(hits)) :
       \E rag \in (IF asksRag
                   THEN {answer_with_rag([dirExists |-> dirExists,
                                          embedModel |-> embedModel],
                                         store, QueryPieces(user_text),
                                         session_state.index_obj, llm, DEFAULT_TOP_K,
                                         clientMode, env, ranking, order)}
                   ELSE {NotAsked}),
          b \in (IF r.route = "booking"
                 THEN {booking_step(user_text, session_state, today, bookings, db, mail)}
                 ELSE {Step(session_state, NoReply)}) :
       \E out \in {handle_user_message(session_state, user_text, appended, b, rag)} :
            /\ (r.route = "booking" /\ b.saveOk) => bookings < MaxBookings
            /\ session_state' = out.ss
            /\ appended' = out.appended
            /\ bookings' = IF r.route = "booking" /\ b.saveOk THEN bookings + 1
                           ELSE bookings
            /\ dirExists' = IF asksRag THEN rag.st.dirExists ELSE dirExists
            /\ embedModel' = IF asksRag THEN rag.st.embedModel ELSE embedModel
            /\ step' = IF r.route = "booking"
                       THEN [op |-> "handle_user_message", text |-> user_text,
                             route |-> r.route, byIntent |-> r.byIntent,
                             reply |-> b.reply, raised |-> b.raised,
                             validated |-> b.validated, saveCalled |-> b.saveCalled,
                             saveOk |-> b.saveOk, mailCalled |-> b.mailCalled,
                             mailOk |-> b.mailOk]
                       ELSE [NoStep EXCEPT !.op = "handle_user_message",
                                           !.text = user_text, !.route = r.route,
                                           !.byIntent = r.byIntent, !.reply = out.reply]
    /\ UNCHANGED <<today, clientMode, docs, store, nextId, last>>
    /\ UNCHANGED <<chunkVars, promptVars, ragVars, saveVars>>

\* build_index_and_store (main.py, lines 92-109)
BuildIndexAndStore ==
    \E force_rebuild \in BOOLEAN, env \in Envs :
        \E out \in {build_or_load_index(State, force_rebuild, clientMode, env)} :
           /\ out.tookBuild => nextId <= MaxIds
           /\ docs' = out.st.docs
           /\ dirExists' = out.st.dirExists
           /\ store' = out.st.store
           /\ embedModel' = out.st.embedModel
           /\ nextId' = out.st.nextId
           /\ last' = [op |-> "build_or_load_index", force |-> force_rebuild,
                       healthy |-> (env = Healthy),
                       raised |-> out.raised, ret |-> out.ret,
                       tookBuild |-> out.tookBuild, extracted |-> out.extracted,
                       embedded |-> out.embedded, saved |-> out.saved,
                       built |-> out.built,
                       prior |-> Len(View(clientMode, store).items)]
           /\ session_state' =
                 IF out.raised
                 THEN [session_state EXCEPT !.index_obj = NoneHandle,
                                            !.index_loaded = FALSE,
                                            !.index_status = "Indexing failed"]
                 ELSE [session_state EXCEPT !.index_obj = out.ret,
                                            !.index_loaded = TRUE,
                                            !.index_status = "Index ready."]
           /\ step' = [NoStep EXCEPT !.op = "build_index_and_store",
                                     !.raised = out.raised]
           /\ UNCHANGED <<clientMode, today, bookings, appended>>
           /\ UNCHANGED <<chunkVars, promptVars, saveVars, ragVars>>

\* a chat in a process that holds the handle of an earlier build, or none
ChatStart ==
    /\ clientMode = "persistent"
    /\ \E held \in HeldStates(<<FileA>>, clientMode) :
          /\ docs = held.st.docs
          /\ dirExists = held.st.dirExists
          /\ store = held.st.store
          /\ embedModel = held.st.embedModel
          /\ nextId = held.st.nextId
          /\ session_state = [NewSession EXCEPT !.index_obj = held.handle,
                                                !.index_loaded = ~held.handle.isNone]
    /\ last = NoCall
    /\ today = 0
    /\ bookings = 0
    /\ appended = 0
    /\ step = NoStep

(***************************************************************************)
(* The specifications                                                      *)
(***************************************************************************)
ChunkInit ==
    ChunkStart /\ PromptIdle /\ StoreIdle /\ RagIdle /\ SaveIdle /\ ChatIdle

ChunkNext == ChunkEntry \/ ChunkLoop

SpecChunk == ChunkInit /\ [][ChunkNext]_vars

\* the loop is a sequential program: a step that can be taken is taken
SpecChunkFair == SpecChunk /\ WF_vars(ChunkNext)

PromptInit ==
    PromptStart /\ ChunkIdle /\ StoreIdle /\ RagIdle /\ SaveIdle /\ ChatIdle

PromptNext == AssemblePrompt

SpecPrompt == PromptInit /\ [][PromptNext]_vars

Init ==
    StoreStart /\ ChunkIdle /\ PromptIdle /\ RagIdle /\ SaveIdle /\ ChatIdle

Next == ChangeDocs \/ BuildOrLoadIndex \/ LoadIndex

Spec == Init /\ [][Next]_vars

RagInit ==
    RagStart /\ ChunkIdle /\ PromptIdle /\ SaveIdle /\ ChatIdle

RagNext == Retrieve \/ AnswerWithRag

SpecRag == RagInit /\ [][RagNext]_vars

\* a process that has not used the embedding model yet
EmbedInit == RagInit /\ embedModel = NoModel /\ ragArgs.llm = "text"

EmbedNext == BuildIndexFromDocs \/ Retrieve \/ NextCall

SpecEmbed == EmbedInit /\ [][EmbedNext]_vars

SaveInit ==
    SaveStart /\ ChunkIdle /\ PromptIdle /\ RagIdle /\ ChatIdle

SaveNext ==
    SaveOpen \/ SaveReadIds \/ SaveDelete \/ SaveAdd \/ ReadLoad \/ ReadRetrieve

SpecSave == SaveInit /\ [][SaveNext]_vars

\* the dialogue by itself, over the days
BookInit ==
    ChatIdle /\ ChunkIdle /\ PromptIdle /\ StoreIdle /\ RagIdle /\ SaveIdle

BookNext == BookingStep \/ ClearChat \/ Midnight

SpecBooking == BookInit /\ [][BookNext]_vars

ChatInit == ChatStart /\ ChunkIdle /\ PromptIdle /\ RagIdle /\ SaveIdle

ChatNext == HandleUserMessage \/ ClearChat

SpecChat == ChatInit /\ [][ChatNext]_vars

\* the index of the session, as files come and go and the index is built
SessionInit ==
    StoreStart /\ ChunkIdle /\ PromptIdle /\ RagIdle /\ SaveIdle /\ ChatIdle

SessionNext == ChangeDocs \/ BuildIndexAndStore

SpecSession == SessionInit /\ [][SessionNext]_vars

(***************************************************************************)
(* Properties of chunk_text                                                *)
(***************************************************************************)
\* the words of a string
WordsOf(t) == SelectSeq(t, LAMBDA p : p # SP)

NumWords(t) == Len(WordsOf(t))

WordCounts(cs) == [i \in 1..Len(cs) |-> NumWords(cs[i])]

\* the 0-based position in the input of the first word of a chunk (the
\* inputs' words are distinct)
FirstPos(c) ==
    LET tw == WordsOf(text)
        w == WordsOf(c)[1]
    IN (CHOOSE i \in 1..Len(tw) : tw[i] = w) - 1

ChunkReturned == chunkPc = "done"

ThousandWords == ChunkReturned /\ NumWords(text) = 1000 /\ CHUNK_SIZE = 300 /\ CHUNK_OVERLAP = 60

\* C3, as stated: a text of 1000 words yields four chunks of 300, 300, 300
\* and 100 words.
C3_Original == ThousandWords => WordCounts(chunks) = <<300, 300, 300, 100>>

\* C3, amended: a text of 1000 words yields four chunks of 300, 300, 300 and
\* 280 words, in that order (each window starts 240 words after the one
\* before, so the fourth covers words 720..999).
C3_ThousandWordSizes == ThousandWords => WordCounts(chunks) = <<300, 300, 300, 280>>

C3_Witness == ThousandWords /\ Len(chunks) = 4

\* C4: for a text of at least one word, every chunk returned except the last
\* has exactly CHUNK_SIZE words and the last has between 1 and CHUNK_SIZE.
C4_ChunkSizes ==
    (ChunkReturned /\ NumWords(text) >= 1) =>
        /\ Len(chunks) >= 1
        /\ \A i \in 1..(Len(chunks) - 1) : NumWords(chunks[i]) = CHUNK_SIZE
        /\ NumWords(chunks[Len(chunks)]) \in 1..CHUNK_SIZE

C4_Witness ==
    /\ ChunkReturned
    /\ Len(chunks) >= 3
    /\ NumWords(chunks[Len(chunks)]) < CHUNK_SIZE

\* C5: each chunk after the first starts exactly CHUNK_SIZE - CHUNK_OVERLAP
\* word positions after the chunk before it, and its first CHUNK_OVERLAP
\* words are, position for position, the last CHUNK_OVERLAP words of that
\* chunk; the final, shorter chunk included.
C5_Overlap ==
    ChunkReturned =>
        \A i \in 1..(Len(chunks) - 1) :
            LET a == WordsOf(chunks[i])
                b == WordsOf(chunks[i + 1])
            IN /\ FirstPos(chunks[i + 1]) = FirstPos(chunks[i]) + CHUNK_SIZE - CHUNK_OVERLAP
               /\ Len(b) >= CHUNK_OVERLAP
               /\ \A k \in 1..CHUNK_OVERLAP : a[Len(a) - CHUNK_OVERLAP + k] = b[k]

C5_Witness ==
    /\ ChunkReturned
    /\ Len(chunks) >= 2
    /\ NumWords(chunks[Len(chunks)]) < CHUNK_SIZE

\* C6: the loop terminates on every input; an iteration that does not stop
\* strictly increases start, and the first window that reaches the end of
\* the word list stops the loop.
C6_Terminates ==
    /\ <>(chunkPc = "done")
    /\ [][/\ (chunkPc = "loop" /\ chunkPc' = "loop") => start' > start
          /\ (chunkPc = "loop" /\ start + CHUNK_SIZE >= Len(words)) => chunkPc' = "done"]_vars

C6_Witness == chunkPc = "loop" /\ start > 0 /\ Len(chunks) >= 3

(***************************************************************************)
(* Properties of assemble_prompt                                           *)
(***************************************************************************)
PromptReturned == promptPc = "returned"

\* C2: the context section of the returned prompt, the text built from the
\* included segments that stands between "Context:" and "Question:", is at
\* most max_chars characters long.
C2_ContextWithinBudget ==
    PromptReturned => CharLen(promptRet.ctx) <= promptArgs.max_chars

(***************************************************************************)
(* Properties of the index store and of build_or_load_index                *)
(***************************************************************************)
\* the artifacts a build can hand to save_index in this state
Artifacts == {IndexObj(d, nextId) : d \in {ds \in DocSets : PdfFiles(ds) # <<>>}}

HoldsPriorSet == Len(View(clientMode, store).items) > 0

\* load_index opens the collection and reads it
ReadsBack(env) == env.getColl = "ok" /\ env.existing # "fail"

\* C1, as stated: after save_index has run on a collection that holds a prior
\* set and returned normally, whatever its get and delete calls did, a
\* following load_index that opens and reads the collection returns exactly
\* the new set.
C1_Original ==
    HoldsPriorSet =>
        \A obj \in Artifacts, env \in Envs, lenv \in {e \in LoadEnvs : ReadsBack(e)} :
            LET sv == save_index(store, obj, clientMode, env)
                h == load_index(sv.store, TRUE, clientMode, lenv)
            IN ~sv.raised => (~h.isNone /\ h.metadatas = obj.metadatas)

\* C1, amended: after save_index has run on a collection that holds a prior
\* set, has read the existing ids and deleted them without a failure of the
\* engine, and returned normally, a following load_index that opens and reads
\* the collection returns exactly the new set: every new item, no prior one.
C1_FullReplace ==
    HoldsPriorSet =>
        \A obj \in Artifacts,
           env \in {e \in Envs : e.existing # "fail" /\ e.delete # "fail"},
           lenv \in {e \in LoadEnvs : ReadsBack(e)} :
            LET sv == save_index(store, obj, clientMode, env)
                h == load_index(sv.store, TRUE, clientMode, lenv)
            IN ~sv.raised => (~h.isNone /\ h.metadatas = obj.metadatas)

\* a rebuild has replaced a prior set and the handle lists the new set alone
C1_Witness ==
    /\ last.op = "build_or_load_index"
    /\ last.saved /\ ~last.raised
    /\ last.prior > 0
    /\ last.built # <<>>
    /\ ~last.ret.isNone
    /\ last.ret.metadatas = last.built

\* C7: a second build_or_load_index(force_rebuild=False), called right after
\* a first that returned, with nothing changed in between and the engine
\* answering every call of both, returns what the first returned and calls
\* neither the PDF extractor, nor the embedder, nor save_index.
C7_Idempotent ==
    [][(/\ last.op = "build_or_load_index" /\ ~last.force /\ ~last.raised /\ last.healthy
        /\ last'.op = "build_or_load_index" /\ ~last'.force /\ last'.healthy)
       => (/\ ~last'.raised
           /\ last'.ret = last.ret
           /\ ~last'.extracted /\ ~last'.embedded /\ ~last'.saved)]_vars

\* C8: when build_or_load_index takes the build path and returns without
\* raising (the engine answering every call), it returns a handle, not None,
\* that names the persist directory and the collection and lists the metadata
\* of exactly the chunks just built, with the persistent client and with the
\* in-memory fallback client.
C8_BuildReturnsHandle ==
    (/\ last.op = "build_or_load_index"
     /\ last.tookBuild /\ ~last.raised /\ last.healthy
     /\ clientMode \in {"persistent", "memShared", "memFresh"})
    => (/\ ~last.ret.isNone
        /\ last.ret.persist_directory = INDEX_DIR_DEFAULT
        /\ last.ret.collection_name = COLLECTION_NAME
        /\ last.ret.metadatas = last.built)

(***************************************************************************)
(* Properties of answer_with_rag                                           *)
(***************************************************************************)
RagReturned == ragPc = "returned"

\* the language-model function was called and raised
LlmRaised == RagReturned /\ ragRet.llmCalled /\ ragArgs.llm = "raises"

\* the language-model function was called and returned None or ""
LlmEmpty == RagReturned /\ ragRet.llmCalled /\ ragArgs.llm \in {"none", "empty"}

\* the source file names of the hits: neither None nor empty
NamedSources(hits) ==
    {hits[i].source.val :
        i \in {j \in 1..Len(hits) : ~hits[j].source.isNone /\ hits[j].source.val # ""}}

Mentions(answer, f) == \E i \in 1..Len(answer) : answer[i] = f
TimesNamed(answer, f) == Cardinality({i \in 1..Len(answer) : answer[i] = f})

\* C9, as stated: when the language-model function raises, answer_with_rag
\* does not raise and its answer is non-empty and mentions at least one
\* source file name of the retrieved hits.
C9_Original ==
    LlmRaised =>
        /\ ~ragRet.raised
        /\ CharLen(ragRet.answer) > 0
        /\ \E f \in NamedSources(ragRet.retrieved) : Mentions(ragRet.answer, f)

\* C9, amended: when the language-model function raises, answer_with_rag
\* does not raise and its answer is non-empty; the answer mentions every
\* source file name of the retrieved hits, so at least one whenever a hit
\* has one, and says "your documents" when no hit has one.
C9_Fallback ==
    LlmRaised =>
        /\ ~ragRet.raised
        /\ CharLen(ragRet.answer) > 0
        /\ \A f \in NamedSources(ragRet.retrieved) : Mentions(ragRet.answer, f)
        /\ NamedSources(ragRet.retrieved) = {} => Mentions(ragRet.answer, "your documents")

C9_Witness ==
    /\ LlmRaised
    /\ ~ragRet.raised
    /\ Cardinality(NamedSources(ragRet.retrieved)) >= 2

\* C10: whenever answer_with_rag returns, its answer is non-empty; when the
\* language-model function returned an empty result the answer is the
\* templated fallback, which names each distinct source file of the
\* retrieved hits exactly once.
C10_AnswerNeverEmpty ==
    /\ (RagReturned /\ ~ragRet.raised) => CharLen(ragRet.answer) > 0
    /\ LlmEmpty =>
        /\ ~ragRet.raised
        /\ Head(ragRet.answer) = "I found relevant information in "
        /\ ragRet.answer[Len(ragRet.answer)] = ", but could not generate a detailed answer."
        /\ \A f \in NamedSources(ragRet.retrieved) : TimesNamed(ragRet.answer, f) = 1

\* an empty result of the language model, two hits of one file
C10_Witness ==
    /\ LlmEmpty
    /\ Len(ragRet.retrieved) >= 2
    /\ Cardinality(NamedSources(ragRet.retrieved)) = 1

(***************************************************************************)
(* Properties of retrieve                                                  *)
(***************************************************************************)
RetrieveReturned == ragPc = "retrieved"

\* C11: a failure of the collection lookup, or of the query in all of its
\* three call shapes, does not propagate out of retrieve: retrieve does not
\* raise for it, and returns an empty hit list.
C11_RetrieveDegrades ==
    (RetrieveReturned /\ ~ragArgs.index_obj.isNone /\ clientMode # "none") =>
        ~(ragRet.raised /\ ragRet.why \in {"get_collection", "query"})

NoDistances == {"distances_none", "distances_empty", "distances_absent"}

C13_NoneHandleRejected ==
    [][(ragPc = "called" /\ ragArgs.index_obj.isNone /\ ragPc' # "called") =>
          /\ ragRet'.raised
          /\ ragRet'.why = "index_obj is None"
          /\ ~ragRet'.llmCalled
          /\ ragRet'.retrieved = <<>>
          /\ dirExists' = dirExists
          /\ embedModel' = embedModel]_vars

\* answer_with_rag has rejected None in a process with no index directory
C13_Witness ==
    /\ ragPc = "returned"
    /\ ragArgs.index_obj.isNone
    /\ ragRet.raised
    /\ ~dirExists
    /\ embedModel = NoModel

(***************************************************************************)
(* Properties of extraction and of the build                               *)
(***************************************************************************)
\* pdfplumber cannot open the file, or one of its pages cannot be extracted
FailsToExtract(f) == ~f.opens \/ \E i \in 1..Len(f.pages) : f.pages[i].raises

\* the files build_index_from_docs has just read
FilesRead == IF last.extracted THEN {docs[i] : i \in {j \in 1..Len(docs) : IsPdf(docs[j])}}
             ELSE {}

\* C14: when the extraction of a PDF fails at any point, at the opening of
\* the file or at any of its pages, extract_text_from_pdf returns zero
\* pages for that file.
C14_ZeroPagesOnFailure ==
    \A f \in FilesRead : FailsToExtract(f) => extract_text_from_pdf(f) = <<>>

\* the entries an artifact should hold for a file that is read without
\* failure: one for every chunk of every page
ChunksOfFile(f) ==
    UNION {{Metadata(FileName(f), i, chunk_text(PageText(f.pages[i]))[k]) :
               k \in 1..Len(chunk_text(PageText(f.pages[i])))} :
           i \in 1..Len(f.pages)}

EntriesOf(built, name) ==
    {built[k] : k \in {j \in 1..Len(built) : built[j].source = Some(name)}}

\* C15: when one PDF of the directory fails to parse, build_index_from_docs
\* still returns its artifact, and the artifact holds every chunk of every
\* other file, under the name and page of its own file.
C15_OtherFilesKept ==
    \A bad \in FilesRead : FailsToExtract(bad) =>
        \A f \in FilesRead : ~FailsToExtract(f) =>
            (last.embedded => EntriesOf(last.built, FileName(f)) = ChunksOfFile(f))

\* a build that returned, over a file that fails and two that do not
C15_Witness ==
    /\ last.embedded
    /\ \E bad \in FilesRead : FailsToExtract(bad)
    /\ Cardinality({f \in FilesRead : ~FailsToExtract(f) /\ ChunksOfFile(f) # {}}) >= 2
    /\ \A f \in FilesRead : ~FailsToExtract(f) =>
           EntriesOf(last.built, FileName(f)) = ChunksOfFile(f)

\* no file of the directory has a .pdf extension, in either case
NoPdf(listing) == \A i \in 1..Len(listing) : listing[i].ext \notin {"pdf", "PDF"}

\* C16: over a directory without a .pdf file, build_index_from_docs raises
\* its "no input" error before a file is read and before the embedder is
\* used; build_or_load_index lets the error pass to its caller and does not
\* call save_index: the collection, the index directory and the embedding
\* model are as they were.
C16_NoInputRaises ==
    [][(NoPdf(docs) /\ docs' = docs /\ last'.tookBuild) =>
          /\ last'.raised
          /\ ~last'.extracted
          /\ ~last'.embedded
          /\ ~last'.saved
          /\ store' = store
          /\ dirExists' = dirExists
          /\ embedModel' = embedModel]_vars

\* a forced rebuild over a directory without PDFs, the collection holding
\* the items of an earlier build
C16_Witness ==
    /\ NoPdf(docs)
    /\ last.tookBuild
    /\ last.force
    /\ last.raised
    /\ store.items # <<>>

(***************************************************************************)
(* No client                                                               *)
(***************************************************************************)
\* C17: when _create_client can construct no client, every operation on the
\* index that needs one reports it by raising: load_index over an index
\* directory that exists, and save_index once build_or_load_index calls it.
C17_NoClientIsFatal ==
    clientMode = "none" =>
        /\ (last.op = "load_index" /\ dirExists) => last.raised
        /\ last.saved => last.raised

(***************************************************************************)
(* The segments of the prompt                                              *)
(***************************************************************************)
\* the length of the formatted segments of the first j hits
RECURSIVE PrefixLen(_, _)
PrefixLen(hits, j) ==
    IF j = 0 THEN 0 ELSE PrefixLen(hits, j - 1) + CharLen(Segment(hits[j]))

\* the number of hits in the longest prefix whose segments fit max_chars
LongestFit(hits, max_chars) ==
    CHOOSE k \in 0..Len(hits) :
        /\ PrefixLen(hits, k) <= max_chars
        /\ k < Len(hits) => PrefixLen(hits, k + 1) > max_chars

\* C18: the segments assemble_prompt includes are the whole formatted
\* segments of the longest prefix of the hits, in rank order, whose
\* cumulative length does not exceed max_chars; after the first segment
\* that would overflow no later hit is included, even one that would fit.
C18_LongestPrefix ==
    PromptReturned =>
        LET k == LongestFit(promptArgs.retrieved, promptArgs.max_chars)
        IN promptRet.parts = [i \in 1..k |-> Segment(promptArgs.retrieved[i])]

\* a hit is included, the next one overflows, and a later one that would
\* have fitted is left out
C18_Witness ==
    /\ PromptReturned
    /\ Len(promptRet.parts) >= 1
    /\ \E j \in (Len(promptRet.parts) + 2)..Len(promptArgs.retrieved) :
          PrefixLen(promptArgs.retrieved, Len(promptRet.parts))
              + CharLen(Segment(promptArgs.retrieved[j])) <= promptArgs.max_chars

(***************************************************************************)
(* The embedding model                                                     *)
(***************************************************************************)
\* the step is a call that got to _get_model: a build past the scan of the
\* directory (line 141), a retrieve past the collection lookup (line 287)
ReachesGetModel ==
    \/ /\ last'.op = "build_index_from_docs"
       /\ last'.extracted
       /\ UNCHANGED ragVars
    \/ /\ ragPc = "called"
       /\ ragPc' = "retrieved"
       /\ ragRet'.why \notin {"index_obj is None", "_create_client", "get_collection"}

\* C19: over the calls of build_index_from_docs and retrieve of one
\* process, _EMBED_MODEL is None until a call gets to _get_model; the
\* instance that call constructs is the only one ever constructed, and it
\* stays in place for every later call.
C19_ModelBuiltOnce ==
    /\ embedModel = NoModel
    /\ [][/\ (embedModel = NoModel /\ embedModel' # NoModel) => ReachesGetModel
          /\ embedModel # NoModel => embedModel' = embedModel
          /\ embedModel' \in {NoModel, 1}]_vars

\* the model is in place, and both a build and a retrieve have used it
C19_Witness ==
    /\ embedModel = 1
    /\ last.op = "build_index_from_docs"
    /\ last.embedded
    /\ ragPc = "retrieved"
    /\ ~ragRet.raised

(***************************************************************************)
(* save_index is not a swap                                                *)
(***************************************************************************)
\* the read of the ids and the delete were both answered by the engine
DeleteWorked == saveCtx.env.existing # "fail" /\ saveCtx.env.delete # "fail"

PriorTexts == {saveCtx.prior[i].document : i \in 1..Len(saveCtx.prior)}
NewTexts ==
    {saveCtx.index_obj.documents[i] : i \in 1..Len(saveCtx.index_obj.documents)}

\* the step model ends where save_index as one operator ends
SaveStepsAgree ==
    savePc \in {"done", "raised"} =>
        LET sv == save_index([exists |-> saveCtx.prior # <<>>, items |-> saveCtx.prior],
                             saveCtx.index_obj, clientMode, saveCtx.env)
        IN /\ sv.raised = (savePc = "raised")
           /\ sv.store.items = store.items

\* C20: save_index deletes and then adds, in two steps.  A reader that
\* calls load_index or retrieve between the two sees no item of the new
\* set, and once the delete has worked it sees an empty collection: neither
\* the prior set nor the new one.  When the add then fails, save_index
\* raises and the prior contents are gone.
C20_NotAtomic ==
    /\ (observed.op # "none" /\ observed.at = "deleted") =>
          /\ ~observed.raised
          /\ observed.texts \subseteq PriorTexts
          /\ DeleteWorked => observed.texts = {}
    /\ (savePc = "raised" /\ saveCtx.why = "add" /\ DeleteWorked) =>
          /\ store.exists
          /\ store.items = <<>>

\* a reader saw the empty collection between the delete and the add, the
\* prior and the new set being non-empty and different, and the add failed
C20_Witness ==
    /\ observed.op = "load_index"
    /\ observed.at = "deleted"
    /\ observed.texts = {}
    /\ PriorTexts # {}
    /\ NewTexts # {}
    /\ PriorTexts # NewTexts
    /\ savePc = "raised"
    /\ saveCtx.why = "add"
    /\ store.items = <<>>

(***************************************************************************)
(* The booking dialogue                                                    *)
(***************************************************************************)
SixSlots == SeqRange(REQUIRED_SLOTS)
AllFilled(slots) == \A k \in SixSlots : Filled(slots, k)
ConfirmWords == {"yes", "y", "confirm", "confirmed"}
Typed == Lower(Strip(step'.text))
Active == session_state.booking_started = "True"

\* C21: booking_step calls _save_booking_to_db, and a row is added to the
\* bookings, only in a step that begins with booking_started True and all
\* six slots filled, in which every slot has passed its validator, and whose
\* message is one of yes, y, confirm, confirmed.
C21_SaveOnlyOnConfirm ==
    [][(step'.saveCalled \/ bookings' # bookings) =>
          /\ step'.op = "booking_step"
          /\ Active
          /\ AllFilled(session_state.booking_slots)
          /\ step'.validated = SixSlots
          /\ Typed \in ConfirmWords]_vars

C21_Witness ==
    /\ step.op = "booking_step" /\ step.saveOk /\ step.validated = SixSlots
    /\ bookings = 1

\* the order in which the dialogue asks for the slots
FillOrder == <<"destination", "name", "email", "phone", "date", "time">>

InOrder(slots) ==
    \A i \in 1..Len(FillOrder) :
        Filled(slots, FillOrder[i]) => \A j \in 1..(i - 1) : Filled(slots, FillOrder[j])

NewlyFilled ==
    {k \in SixSlots : /\ Filled(session_state'.booking_slots, k)
                      /\ ~Filled(session_state.booking_slots, k)}

NextToFill(slots) ==
    {FillOrder[i] : i \in {i \in 1..Len(FillOrder) :
                              /\ ~Filled(slots, FillOrder[i])
                              /\ \A j \in 1..(i - 1) : Filled(slots, FillOrder[j])}}

\* C22: a booking begins with no slot filled, and as long as no message
\* "change <field>" is sent a slot is filled only if all slots before it in
\* the order destination, name, email, phone, date, time are filled: a step
\* other than a "change" keeps that, and fills at most one slot, the first
\* one that is missing.
C22_FilledInOrder ==
    /\ InOrder(session_state.booking_slots)
    /\ [][/\ (session_state'.booking_started = "True" /\ ~Active) =>
                session_state'.booking_slots = EmptyDict
          /\ (InOrder(session_state.booking_slots)
                /\ ~(step'.op = "booking_step" /\ ~ChangeField(Typed).isNone)) =>
                /\ InOrder(session_state'.booking_slots)
                /\ NewlyFilled \subseteq NextToFill(session_state.booking_slots)]_vars

C22_Witness ==
    /\ step.op = "booking_step" /\ step.text = "9:05"
    /\ step.reply.kind = "confirm_summary"
    /\ AllFilled(session_state.booking_slots)
    /\ session_state.booking_slots["date"] = "2099-12-31"

WasReset ==
    /\ session_state'.booking_slots = EmptyDict
    /\ session_state'.booking_started = "False"

\* C24: in a step that confirms a booking whose six slots are filled, the
\* session is reset exactly when the save to the database succeeded; when
\* the save failed no mail is sent, booking_started stays True and the six
\* slots stay filled.
C24_ResetIffSaved ==
    [][(step'.op = "booking_step" /\ Active
          /\ AllFilled(session_state.booking_slots) /\ Typed \in ConfirmWords) =>
          /\ WasReset <=> step'.saveOk
          /\ (step'.saveCalled /\ ~step'.saveOk) =>
                /\ ~step'.mailCalled
                /\ session_state'.booking_started = "True"
                /\ AllFilled(session_state'.booking_slots)]_vars

\* C26: in an active booking a message "change <field>" that names one of
\* the six slots removes that slot and nothing else: the other slots keep
\* their values, booking_started stays True and nothing is saved; with any
\* other field name the slots stay as they are.
C26_ChangeRemovesOneSlot ==
    [][(step'.op = "booking_step" /\ Active /\ ~ChangeField(Typed).isNone) =>
          LET field == ChangeField(Typed).val
              before == session_state.booking_slots
              after == session_state'.booking_slots
          IN /\ session_state'.booking_started = "True"
             /\ ~step'.saveCalled /\ bookings' = bookings
             /\ IF field \in SixSlots
                THEN /\ DOMAIN after = (DOMAIN before) \ {field}
                     /\ \A k \in DOMAIN after : after[k] = before[k]
                ELSE after = before]_vars

C26_Witness ==
    /\ step.op = "booking_step" /\ step.text = "change date"
    /\ step.reply = slot_prompt("date")
    /\ ~Filled(session_state.booking_slots, "date")
    /\ Filled(session_state.booking_slots, "time")
    /\ Filled(session_state.booking_slots, "name")

\* C27: when booking_step answers with the prompt for a slot, that slot is
\* missing.
C27_PromptsOnlyMissing ==
    (step.op = "booking_step" /\ step.reply.kind = "slot_prompt") =>
        ~Filled(session_state.booking_slots, step.reply.about)

\* C28: a booking_slots that is not empty implies that booking_started is
\* True, and a step that sets booking_started to False leaves booking_slots
\* empty.
C28_SlotsOnlyInBooking ==
    /\ [](session_state.booking_slots # EmptyDict =>
              session_state.booking_started = "True")
    /\ [][(session_state'.booking_started = "False"
             /\ session_state.booking_started # "False") =>
                session_state'.booking_slots = EmptyDict]_vars

C28_Witness ==
    /\ step.op = "booking_step"
    /\ session_state.booking_started = "True"
    /\ Filled(session_state.booking_slots, "destination")
    /\ bookings = 1

(***************************************************************************)
(* The chat                                                                *)
(***************************************************************************)
\* C23: while booking_started is "asked" or True, handle_user_message gives
\* the message to booking_step and detect_intent has no say; otherwise the
\* message goes where detect_intent sends it.
C23_BookingKeepsTheChat ==
    [][step'.op = "handle_user_message" =>
          IF Started(session_state)
          THEN step'.route = "booking" /\ ~step'.byIntent
          ELSE step'.byIntent /\ step'.route = detect_intent(step'.text)]_vars

C23_Witness ==
    /\ step.op = "handle_user_message" /\ step.route = "booking" /\ ~step.byIntent
    /\ detect_intent(step.text) = "rag"
    /\ session_state.booking_started = "asked"

\* C25: the chat memory holds at most MAX_MEMORY entries, and they are the
\* entries it was given last, in the order in which it was given them.
C25_MemoryIsRecent ==
    LET mem == session_state.chat_memory
    IN /\ Len(mem) <= MAX_MEMORY
       /\ \A i \in 1..Len(mem) : mem[i].n = appended - Len(mem) + i

C25_Witness ==
    /\ step.op = "handle_user_message"
    /\ Len(session_state.chat_memory) = MAX_MEMORY
    /\ appended > MAX_MEMORY + 1
    /\ session_state.chat_memory[1].n = appended - MAX_MEMORY + 1

(***************************************************************************)
(* The index of the session                                                *)
(***************************************************************************)
\* C29: after a call of build_index_and_store, index_loaded is True only
\* if index_obj is a handle and not None.
C29_LoadedMeansHandle ==
    step.op = "build_index_and_store" =>
        (session_state.index_loaded => ~session_state.index_obj.isNone)

====
